---- MODULE Spec2Model ----
(***************************************************************************)
(* Orchestration layer of sparkling-osm-router: the RouteQueue batch queue *)
(* and the Graph load/unload lifecycle, in the two API revisions the       *)
(* repository holds:                                                       *)
(*   "modules" : src/modules/Graph.ts, src/modules/Profile.ts and the      *)
(*               RouteQueue that counts completions (processQueue);        *)
(*   "legacy"  : the Graph with createGraphStore/cleanup and the           *)
(*               RouteQueue that polls getStatus (startQueueProcessing).   *)
(* The native engine (index.node) is not part of the TypeScript sources;   *)
(* its queue and handle table are modelled from the interface description. *)
(***************************************************************************)
EXTENDS Integers, FiniteSets, Sequences, TLC

(* ------------------------------ bounds -------------------------------- *)
MaxTasks == 2
MaxRuns == 2
MaxConcurrency == 2
MaxQueues == 2
MaxLoads == 2
MaxReleases == 2

MaxProfiles == 2
ProfileIds == 1..MaxProfiles
TaskIds == 1..MaxTasks
QueueIds == 1..MaxQueues
Revisions == {"modules", "legacy"}
NoGraph == 0

(* --------------------------- engine results --------------------------- *)
\* What the engine hands to the per-task callback: an Error, null, or a
\* RouteResult; a RouteResult is kept by the lengths of its sequences.
ErrorResult == [isError |-> TRUE, isNull |-> FALSE, nodes |-> 0, ways |-> 0]
NullResult == [isError |-> FALSE, isNull |-> TRUE, nodes |-> 0, ways |-> 0]
EmptyRoute == [isError |-> FALSE, isNull |-> FALSE, nodes |-> 0, ways |-> 0]
FoundRoute == [isError |-> FALSE, isNull |-> FALSE, nodes |-> 2, ways |-> 1]
Results == {ErrorResult, NullResult, EmptyRoute, FoundRoute}
NoResult == [isError |-> FALSE, isNull |-> FALSE, nodes |-> -1, ways |-> -1]

VARIABLES
    revision,        \* which API revision the objects belong to
    \* ---- RouteQueue object and the closure of its awaitAll run
    maxConcurrency,  \* bound handed to createRouteQueue
    processing,      \* RouteQueue.processing
    totalTasks,      \* awaitAll: totalTasks (modules)
    completedTasks,  \* awaitAll: completedTasks of the current run
    emptyCount,      \* awaitAll: emptyCount of the current run
    run,             \* number of engine processing runs started so far
    promise,         \* the promise of the latest awaitAll: none, pending, resolved
    inFlight,        \* number of awaitAll promises not yet settled
    \* ---- engine queue
    queued,          \* task ids waiting in the engine queue
    active,          \* task ids being computed by engine workers
    stream,          \* completions computed but not yet handed to JS
    running,         \* engine workers of a processing run are alive
    \* ---- history
    accepted,        \* ids enqueueRoute returned normally for
    cleared,         \* ids dropped by clear()
    result,          \* id -> result the engine computed (NoResult before)
    invoked,         \* id -> number of invocations of the caller's callback
    args,            \* id -> arguments of the last callback invocation
    handled,         \* ids whose completion handler ran in the current run
    thrown,          \* ids whose callback invocation raised
    last,            \* the last API call: operation, outcome, engine call
    \* ---- Graph object and engine handle table
    graphId,         \* Graph.graphId (modules) / Graph.graph (legacy)
    loading,         \* legacy loadGraph calls suspended at loadOSMGraph, each with
                     \* the number of engine loads performed when it was issued
    queueIds,        \* Graph.queueIds (legacy)
    engineGraphs,    \* graph handles the engine holds loaded
    nextGraph,       \* next graph handle the engine hands out
    engineLoads,     \* number of engine loads performed
    queueGraph,      \* queue id -> graph handle it was created against
    releases,        \* queue id -> number of cleanupRouteQueue calls
    \* ---- construction of a RouteQueue
    host,            \* logical CPUs of the host and the maxConcurrency argument
    \* ---- construction of a Profile
    profile,         \* the ProfileOptions handed to the constructor
    rawProfile,      \* Profile.rawProfile, the profile in the engine's format
    \* ---- shape tools
    shape,           \* the points handed to simplifyShape
    epsilon,         \* the epsilon handed to simplifyShape
    simplified,      \* what simplifyShape returned
    offsetArgs,      \* the points, distance and side handed to offsetShape
    offsetted,       \* the segments offsetShape built and what it returned
    \* ---- profiles of a Graph
    profiles,        \* Graph.profiles: ids of the Profiles constructed on the graph
    registered,      \* ids of the profile list the engine was handed by loadGraph
    engineProfile,   \* profile id carried by the last engine call of a Profile
    \* ---- progress telemetry of a RouteQueue
    enableProgressBar, \* RouteQueue.enableProgressBar
    clock,           \* Date.now(), in seconds since the latest awaitAll started
    progressHistory, \* awaitAll: progressHistory (modules)
    completionTimes, \* awaitAll: completionTimes (legacy)
    bar              \* what the progress display was last given

queueVars == <<maxConcurrency, processing, totalTasks, completedTasks, emptyCount,
               run, promise, inFlight, queued, active, stream, running, accepted, cleared,
               result, invoked, args, handled, thrown>>
graphVars == <<graphId, loading, queueIds, engineGraphs, nextGraph, engineLoads,
               queueGraph, releases>>
utilVars == <<host, profile, rawProfile, shape, epsilon, simplified, offsetArgs,
              offsetted>>
registryVars == <<profiles, registered, engineProfile>>
telemetryVars == <<enableProgressBar, clock, progressHistory, completionTimes, bar>>
toolVars == <<utilVars, registryVars, telemetryVars>>
vars == <<revision, queueVars, graphVars, last, toolVars>>

(* ------------------------- exact arithmetic ---------------------------- *)
\* Coordinates, distances and rates are exact fractions num/den in lowest terms, den > 0.
Abs(x) == IF x < 0 THEN -x ELSE x

RECURSIVE Gcd(_, _)
Gcd(a, b) == IF b = 0 THEN a ELSE Gcd(b, a % b)

\* n / d in lowest terms; 0 / 0 is NaN and n / 0 an infinity, as in the
\* number arithmetic of the language
NaN == [num |-> 0, den |-> 0]
Frac(n, d) ==
    LET g == Gcd(Abs(n), Abs(d))
        s == IF d < 0 THEN -1 ELSE 1
    IN IF g = 0 THEN NaN ELSE [num |-> (s * n) \div g, den |-> (s * d) \div g]

Whole(n) == [num |-> n, den |-> 1]
Add(a, b) == Frac(a.num * b.den + b.num * a.den, a.den * b.den)
Sub(a, b) == Frac(a.num * b.den - b.num * a.den, a.den * b.den)
\* the common factors are taken out before the product, to stay within the integers
Mul(a, b) ==
    LET g == Gcd(Abs(a.num), b.den)
        h == Gcd(Abs(b.num), a.den)
    IN Frac((a.num \div g) * (b.num \div h), (a.den \div h) * (b.den \div g))
Div(a, b) == Frac(a.num * b.den, a.den * b.num)
Neg(a) == [num |-> -a.num, den |-> a.den]
Magnitude(a) == [num |-> Abs(a.num), den |-> a.den]
AtLeast(a, b) == a.num * b.den >= b.num * a.den

NoArgs == [result |-> "none", error |-> FALSE]

\* the errors of the orchestration layer
Errors == {"StateError", "NotLoaded"}

\* mutant: no entry point is declared async
AsyncOps_none == {}

\* the entry points declared async: a throw in their body rejects the promise
\* the call returns
AsyncOps == {"awaitAll", "getRoute", "loadGraph"}

\* how the outcome of a call leaves the call
Raise(op, outcome) ==
    IF outcome \in Errors
        THEN IF op \in AsyncOps THEN "rejected" ELSE "thrown"
        ELSE "returned"

Call(op, outcome, engine, handle) ==
    [op |-> op, outcome |-> outcome, engine |-> engine, handle |-> handle,
     how |-> Raise(op, outcome)]

(* ------------------- engine queue (interface description) ------------- *)
\* getQueueStatus(queueId) -> QueueStatus
getQueueStatus ==
    [queuedTasks |-> Cardinality(queued),
     activeTasks |-> Cardinality(active),
     isEmpty |-> (queued = {} /\ active = {})]

\* enqueueRoute(queueId, id, ...) -> id
engineEnqueueRoute(id) ==
    /\ queued' = queued \cup {id}
    /\ UNCHANGED <<active, stream, running>>

\* clearRouteQueue(queueId): drops the tasks not yet dispatched
engineClearRouteQueue ==
    /\ queued' = {}
    /\ UNCHANGED <<active, stream, running>>

\* processQueue / startQueueProcessing(queueId, callback): workers start and
\* live as long as there is a task to take
engineProcessQueue ==
    /\ running' = (queued # {})
    /\ UNCHANGED <<queued, active, stream>>

\* a worker takes a queued task; at most maxConcurrency are computed at once
Dispatch ==
    /\ running
    /\ Cardinality(active) < maxConcurrency
    /\ \E id \in queued :
        /\ queued' = queued \ {id}
        /\ active' = active \cup {id}
    /\ UNCHANGED <<revision, toolVars, maxConcurrency, processing, totalTasks, completedTasks,
                   emptyCount, run, promise, inFlight, stream, running, accepted,
                   cleared, result, invoked, args, handled, thrown, last, graphVars>>

\* a worker finishes a task: the task leaves the active set and its completion
\* is sent towards the JS thread; the workers end when nothing is left
Finish ==
    /\ \E id \in active, r \in Results :
        /\ active' = active \ {id}
        /\ result' = [result EXCEPT ![id] = r]
        /\ stream' = stream \cup {[id |-> id, run |-> run]}
        /\ running' = (queued # {} \/ active # {id})
    /\ UNCHANGED <<revision, toolVars, maxConcurrency, processing, totalTasks, completedTasks,
                   emptyCount, run, promise, inFlight, queued, accepted, cleared,
                   invoked, args, handled, thrown, last, graphVars>>

(* ----------------------------- RouteQueue ------------------------------ *)
\* mutants: the guard is missing
enqueueGuard_off == FALSE
awaitAllGuard_off == FALSE

\* if (this.processing) throw ... in enqueueRoute, clear and awaitAll
enqueueGuard == processing
clearGuard == processing
awaitAllGuard == processing

\* mutant: isEmpty recomputed from the queued tasks alone
getStatus_queuedOnly == [getQueueStatus EXCEPT !.isEmpty = (queued = {})]

\* getStatus = () => getQueueStatus(this.queueId)
getStatus == getQueueStatus

\* mutant: only a null result counts as empty
IsEmptyResult_nullOnly(r) == r.isNull

\* the emptiness test of the completion handler
IsEmptyResult(r) ==
    IF revision = "modules"
        THEN r.isNull \/ r.nodes = 0     \* !result || !result.nodes || !result.nodes.length
        ELSE r.isNull \/ r.ways = 0      \* !result || !result.ways.length

\* mutant: the instanceof Error branch is missing
CallbackArgs_errorAsResult(r) ==
    [result |-> IF r.isNull THEN "null" ELSE "route", error |-> FALSE]

\* what the handler passes to the caller's callback
CallbackArgs(r) ==
    IF r.isError
        THEN [result |-> "null", error |-> TRUE]      \* callback(id, null, result)
        ELSE [result |-> IF r.isNull THEN "null" ELSE "route", error |-> FALSE]

\* if (completedTasks >= totalTasks)
BatchDone(completed, total) == completed >= total

enqueueRoute ==
    /\ \E id \in TaskIds :
        IF enqueueGuard
            THEN /\ last' = Call("enqueueRoute", "StateError", "none", 0)
                 /\ UNCHANGED <<queued, active, stream, running, accepted>>
            ELSE /\ id \notin accepted
                 /\ engineEnqueueRoute(id)
                 /\ accepted' = accepted \cup {id}
                 /\ last' = Call("enqueueRoute", "ok", "enqueueRoute", 0)
    /\ UNCHANGED <<revision, toolVars, maxConcurrency, processing, totalTasks, completedTasks,
                   emptyCount, run, promise, inFlight, cleared, result, invoked,
                   args, handled, thrown, graphVars>>

\* the caller reads getStatus(): a snapshot, nothing changes
getStatusCall ==
    /\ getStatus \in [queuedTasks : Nat, activeTasks : Nat, isEmpty : BOOLEAN]
    /\ UNCHANGED vars

\* mutant: clear returns without the engine call
clear_noEngineCall ==
    /\ last' = Call("clear", IF clearGuard THEN "StateError" ELSE "ok", "none", 0)
    /\ UNCHANGED <<revision, toolVars, queueVars, graphVars>>

clear ==
    /\ IF clearGuard
           THEN /\ last' = Call("clear", "StateError", "none", 0)
                /\ UNCHANGED <<queued, active, stream, running, cleared>>
           ELSE /\ engineClearRouteQueue
                /\ cleared' = cleared \cup queued
                /\ last' = Call("clear", "ok", "clearRouteQueue", 0)
    /\ UNCHANGED <<revision, toolVars, maxConcurrency, processing, totalTasks, completedTasks,
                   emptyCount, run, promise, inFlight, accepted, result, invoked,
                   args, handled, thrown, graphVars>>

(* ------------------------- progress telemetry -------------------------- *)
\* a throughput and an ETA, shown or not
NoThroughput == [known |-> FALSE, value |-> Whole(0)]
Throughput(x) == [known |-> TRUE, value |-> x]
NoEta == [shown |-> FALSE, seconds |-> 0]
Eta(seconds) == [shown |-> TRUE, seconds |-> seconds]
NoBar == [value |-> 0, total |-> 0, throughput |-> NoThroughput, eta |-> NoEta]

\* the window of completions the speed is taken over, 30 * 1000 ms, in seconds
timeWindow == 30

\* Math.round of a fraction that is not negative
round(x) == (2 * x.num + x.den) \div (2 * x.den)

\* while (progressHistory.length > 0 && now - progressHistory[0].time > 30 * 1000)
\*     progressHistory.shift()
RECURSIVE shiftHistory(_, _)
shiftHistory(history, now) ==
    IF history # <<>> /\ now - Head(history).time > timeWindow
        THEN shiftHistory(Tail(history), now)
        ELSE history

\* the speed and the eta the completion handler works out from progressHistory
\* (the bar is given Math.round of currentSpeed, the eta comes from currentSpeed)
barPayload(history, completed, total) ==
    IF Len(history) > 1
        THEN LET oldest == history[1]
                 newest == history[Len(history)]
                 timeDiffSeconds == newest.time - oldest.time
                 tasksDiff == newest.tasks - oldest.tasks
                 currentSpeed == Frac(tasksDiff, timeDiffSeconds)
                 remainingTasks == total - completed
             IN IF timeDiffSeconds > 0
                    THEN [throughput |-> Throughput(currentSpeed),
                          eta |-> IF currentSpeed.num > 0
                                      THEN Eta(round(Div(Whole(remainingTasks), currentSpeed)))
                                      ELSE NoEta]
                    ELSE [throughput |-> NoThroughput, eta |-> NoEta]
        ELSE [throughput |-> NoThroughput, eta |-> NoEta]

\* if (bar) { progressHistory.push(...); ...; bar.increment(1, { speed, eta, emptyCount }) }
incrementBar ==
    IF enableProgressBar
        THEN LET history == shiftHistory(Append(progressHistory,
                                                [time |-> clock, tasks |-> completedTasks + 1]),
                                         clock)
                 payload == barPayload(history, completedTasks + 1, totalTasks)
             IN /\ progressHistory' = history
                /\ bar' = [value |-> bar.value + 1, total |-> bar.total,
                           throughput |-> payload.throughput, eta |-> payload.eta]
        ELSE UNCHANGED <<progressHistory, bar>>

\* while (completionTimes.length > 0 && completionTimes[0] < cutoffTime)
\*     completionTimes.shift()
RECURSIVE shiftTimes(_, _)
shiftTimes(times, cutoffTime) ==
    IF times # <<>> /\ Head(times) < cutoffTime
        THEN shiftTimes(Tail(times), cutoffTime)
        ELSE times

\* updateProgress() of the polling awaitAll, with startTime = 0: the
\* completion times it leaves and what it writes
updateProgress(times, completed) ==
    LET status == getStatus
        remaining == status.queuedTasks + status.activeTasks
        total == completed + remaining
        currentTime == clock
        elapsedSeconds == currentTime
        kept == shiftTimes(times, currentTime - timeWindow)
        routesPerSecond ==
            IF kept # <<>> /\ currentTime - kept[1] > 1
                THEN Frac(Len(kept), currentTime - kept[1])
                ELSE IF elapsedSeconds > 0 THEN Frac(completed, elapsedSeconds) ELSE Whole(0)
        etaString ==
            IF routesPerSecond.num > 0 /\ remaining > 0
                THEN Eta(round(Div(Whole(remaining), routesPerSecond)))
                ELSE NoEta
    IN IF ~enableProgressBar \/ total = 0
           THEN [completionTimes |-> times, bar |-> bar]
           ELSE [completionTimes |-> kept,
                 bar |-> [value |-> completed, total |-> total,
                          throughput |-> Throughput(routesPerSecond), eta |-> etaString]]

\* awaitAll of the revision that counts completions
awaitAllCounting ==
    /\ revision = "modules"
    /\ IF awaitAllGuard
           THEN /\ last' = Call("awaitAll", "StateError", "none", 0)
                /\ UNCHANGED <<processing, totalTasks, completedTasks, emptyCount, run,
                               promise, inFlight, queued, active, stream, running,
                               handled, clock, progressHistory, bar>>
           ELSE IF getStatus.queuedTasks = 0
                    THEN /\ last' = Call("awaitAll", "resolved", "getQueueStatus", 0)
                         /\ promise' = "resolved"
                         /\ UNCHANGED <<processing, totalTasks, completedTasks,
                                        emptyCount, run, inFlight, queued, active,
                                        stream, running, handled, clock,
                                        progressHistory, bar>>
                    ELSE /\ run < MaxRuns
                         /\ processing' = TRUE
                         /\ totalTasks' = getStatus.queuedTasks
                         /\ completedTasks' = 0
                         /\ emptyCount' = 0
                         /\ handled' = {}
                         /\ promise' = "pending"
                         /\ inFlight' = inFlight + 1
                         /\ run' = run + 1
                         /\ clock' = 0
                         /\ progressHistory' = <<>>
                         /\ bar' = IF enableProgressBar
                                       THEN [NoBar EXCEPT !.total = getStatus.queuedTasks]
                                       ELSE bar
                         /\ engineProcessQueue
                         /\ last' = Call("awaitAll", "pending", "processQueue", 0)
    /\ UNCHANGED <<revision, utilVars, registryVars, enableProgressBar, completionTimes,
                   maxConcurrency, accepted, cleared, result, invoked, args, thrown,
                   graphVars>>

\* awaitAll of the revision that polls getStatus
awaitAllPolling ==
    /\ revision = "legacy"
    /\ IF awaitAllGuard
           THEN /\ last' = Call("awaitAll", "StateError", "none", 0)
                /\ UNCHANGED <<processing, completedTasks, emptyCount, run, promise,
                               inFlight, queued, active, stream, running, handled,
                               clock, completionTimes>>
           ELSE /\ run < MaxRuns
                /\ processing' = TRUE
                /\ completedTasks' = 0
                /\ emptyCount' = 0
                /\ handled' = {}
                /\ promise' = "pending"
                /\ inFlight' = inFlight + 1
                /\ run' = run + 1
                /\ clock' = 0
                /\ completionTimes' = <<>>
                /\ engineProcessQueue
                /\ last' = Call("awaitAll", "pending", "startQueueProcessing", 0)
    /\ UNCHANGED <<revision, utilVars, registryVars, enableProgressBar, progressHistory, bar,
                   maxConcurrency, totalTasks, accepted, cleared, result, invoked, args,
                   thrown, graphVars>>

\* setInterval(() => { status = getStatus(); updateProgress();
\*                     if (status.isEmpty) resolve }, 750)
Poll ==
    /\ revision = "legacy"
    /\ promise = "pending"
    /\ completionTimes' = updateProgress(completionTimes, completedTasks).completionTimes
    /\ bar' = updateProgress(completionTimes, completedTasks).bar
    /\ IF getStatus.isEmpty
           THEN /\ processing' = FALSE
                /\ promise' = "resolved"
                /\ inFlight' = inFlight - 1
           ELSE UNCHANGED <<processing, promise, inFlight>>
    /\ UNCHANGED <<revision, utilVars, registryVars, enableProgressBar, clock,
                   progressHistory, maxConcurrency, totalTasks, completedTasks, emptyCount,
                   run, queued, active, stream, running, accepted, cleared, result,
                   invoked, args, handled, thrown, last, graphVars>>

\* mutant: the last completion resolves the promise but leaves the flag set
HandleCounting_flagKept(id, r, throws) ==
    /\ emptyCount' = IF ~r.isError /\ IsEmptyResult(r) THEN emptyCount + 1 ELSE emptyCount
    /\ processing' = processing
    /\ UNCHANGED completionTimes
    /\ IF throws
           THEN UNCHANGED <<completedTasks, promise, inFlight, progressHistory, bar>>
           ELSE /\ completedTasks' = completedTasks + 1
                /\ incrementBar
                /\ IF BatchDone(completedTasks + 1, totalTasks)
                       THEN /\ promise' = IF promise = "pending" THEN "resolved" ELSE promise
                            /\ inFlight' = IF promise = "pending" THEN inFlight - 1 ELSE inFlight
                       ELSE UNCHANGED <<promise, inFlight>>

\* the completion handler given to processQueue, run for one completion
HandleCounting(id, r, throws) ==
    /\ emptyCount' = IF ~r.isError /\ IsEmptyResult(r) THEN emptyCount + 1 ELSE emptyCount
    /\ UNCHANGED completionTimes
    /\ IF throws
           THEN UNCHANGED <<completedTasks, processing, promise, inFlight, progressHistory,
                            bar>>
           ELSE /\ completedTasks' = completedTasks + 1
                /\ incrementBar
                /\ IF BatchDone(completedTasks + 1, totalTasks)
                       THEN /\ processing' = FALSE
                            /\ promise' = IF promise = "pending" THEN "resolved" ELSE promise
                            /\ inFlight' = IF promise = "pending" THEN inFlight - 1 ELSE inFlight
                       ELSE UNCHANGED <<processing, promise, inFlight>>

\* the completion handler given to startQueueProcessing, run for one completion
HandlePolling(id, r, throws) ==
    /\ completedTasks' = completedTasks + 1
    /\ completionTimes' =
           updateProgress(Append(completionTimes, clock), completedTasks + 1).completionTimes
    /\ bar' = updateProgress(Append(completionTimes, clock), completedTasks + 1).bar
    /\ emptyCount' = IF ~r.isError /\ IsEmptyResult(r) THEN emptyCount + 1 ELSE emptyCount
    /\ UNCHANGED <<processing, promise, inFlight, progressHistory>>

\* mutant: the callback is also invoked for a task that is still active
Deliver_whileActive ==
    /\ \E e \in stream \cup {[id |-> id, run |-> run] : id \in active}, throws \in BOOLEAN :
        /\ stream' = stream \ {e}
        /\ invoked' = [invoked EXCEPT ![e.id] = @ + 1]
        /\ args' = [args EXCEPT ![e.id] = CallbackArgs(result[e.id])]
        /\ thrown' = IF throws THEN thrown \cup {e.id} ELSE thrown
        /\ IF e.run = run
               THEN /\ handled' = handled \cup {e.id}
                    /\ IF revision = "modules"
                           THEN HandleCounting(e.id, result[e.id], throws)
                           ELSE HandlePolling(e.id, result[e.id], throws)
               ELSE UNCHANGED <<handled, completedTasks, emptyCount, processing,
                                promise, inFlight, progressHistory, completionTimes, bar>>
    /\ UNCHANGED <<revision, utilVars, registryVars, enableProgressBar, clock, maxConcurrency,
                   totalTasks, run, queued, active, running, accepted, cleared, result,
                   last, graphVars>>

\* the engine hands one completion to the JS thread, which runs the handler of
\* the awaitAll run the task belongs to; the caller's callback may raise
Deliver ==
    /\ \E e \in stream, throws \in BOOLEAN :
        /\ stream' = stream \ {e}
        /\ invoked' = [invoked EXCEPT ![e.id] = @ + 1]
        /\ args' = [args EXCEPT ![e.id] = CallbackArgs(result[e.id])]
        /\ thrown' = IF throws THEN thrown \cup {e.id} ELSE thrown
        /\ IF e.run = run
               THEN /\ handled' = handled \cup {e.id}
                    /\ IF revision = "modules"
                           THEN HandleCounting(e.id, result[e.id], throws)
                           ELSE HandlePolling(e.id, result[e.id], throws)
               ELSE UNCHANGED <<handled, completedTasks, emptyCount, processing,
                                promise, inFlight, progressHistory, completionTimes, bar>>
    /\ UNCHANGED <<revision, utilVars, registryVars, enableProgressBar, clock, maxConcurrency,
                   totalTasks, run, queued, active, running, accepted, cleared, result,
                   last, graphVars>>

\* the concurrency argument of the constructor: omitted, or a number
Omitted == [given |-> FALSE, value |-> 0]
Given(n) == [given |-> TRUE, value |-> n]

\* no Profile constructed yet, simplifyShape not called yet
NoProfile == [penalties |-> <<>>, accessTags |-> <<>>, onewayTags |-> <<>>]
NoRawProfile == [built |-> FALSE]
NoShape == <<>>
NotCalled == [called |-> FALSE, points |-> <<>>]
NoEpsilon == [num |-> 0, den |-> 1]
NoOffsetArgs == [points |-> <<>>, offsetMeters |-> [num |-> 0, den |-> 1], offsetSide |-> 1]
NoOffset == [called |-> FALSE, segments |-> <<>>, points |-> <<>>]

\* the host of the process, no tool in use
hostIdle == host = [cpuCount |-> MaxConcurrency + 1, arg |-> Given(MaxConcurrency)]
profileIdle == profile = NoProfile /\ rawProfile = NoRawProfile
shapeIdle == shape = NoShape /\ epsilon = NoEpsilon /\ simplified = NotCalled
offsetIdle == offsetArgs = NoOffsetArgs /\ offsetted = NoOffset

\* nothing but the orchestration objects is in use
utilIdle == hostIdle /\ profileIdle /\ shapeIdle /\ offsetIdle

\* one Profile was constructed on the graph before anything else happened, and
\* a graph that is loaded was loaded with it
NoProfileId == 0
registryIdle ==
    /\ profiles = <<1>>
    /\ registered = IF graphId = NoGraph THEN <<>> ELSE profiles
    /\ engineProfile = NoProfileId

\* a queue constructed with the progress display off, the default
telemetryOff ==
    /\ clock = 0
    /\ progressHistory = <<>>
    /\ completionTimes = <<>>
    /\ bar = NoBar
telemetryIdle == enableProgressBar = FALSE /\ telemetryOff

toolIdle == utilIdle /\ registryIdle /\ telemetryIdle

\* a RouteQueue right after its construction on a loaded graph
queueIdle ==
    /\ revision \in Revisions
    /\ processing = FALSE
    /\ totalTasks = 0
    /\ completedTasks = 0
    /\ emptyCount = 0
    /\ run = 0
    /\ promise = "none"
    /\ inFlight = 0
    /\ queued = {}
    /\ active = {}
    /\ stream = {}
    /\ running = FALSE
    /\ accepted = {}
    /\ cleared = {}
    /\ result = [id \in TaskIds |-> NoResult]
    /\ invoked = [id \in TaskIds |-> 0]
    /\ args = [id \in TaskIds |-> NoArgs]
    /\ handled = {}
    /\ thrown = {}
    /\ last = Call("createRouteQueue", "ok", "createRouteQueue", 1)
    /\ graphId = 1
    /\ loading = <<>>
    /\ queueIds = IF revision = "legacy" THEN <<1>> ELSE <<>>
    /\ engineGraphs = {1}
    /\ nextGraph = 2
    /\ engineLoads = 1
    /\ queueGraph = [q \in QueueIds |-> IF q = 1 THEN 1 ELSE NoGraph]
    /\ releases = [q \in QueueIds |-> 0]

Init ==
    /\ queueIdle
    /\ maxConcurrency = MaxConcurrency
    /\ toolIdle

Next ==
    \/ enqueueRoute
    \/ getStatusCall
    \/ clear
    \/ awaitAllCounting
    \/ awaitAllPolling
    \/ Poll
    \/ Dispatch
    \/ Finish
    \/ Deliver

Spec == Init /\ [][Next]_vars

\* the scheduling the runtime guarantees: a worker that can take or finish a
\* task does, a completion sent to the JS thread is handed over, the interval
\* timer keeps firing
FairSpec ==
    /\ Spec
    /\ WF_vars(Dispatch)
    /\ WF_vars(Finish)
    /\ WF_vars(Deliver)
    /\ WF_vars(Poll)

(* ------------------------------- claims ------------------------------- *)
RunInFlight == promise = "pending"
awaitAllCall == awaitAllCounting \/ awaitAllPolling

\* C1: at most one awaitAll run is in flight on a queue: there is never more
\* than one unsettled awaitAll promise, and an awaitAll invoked while a run is
\* in flight fails with the state error and starts no engine processing run.
C1_SingleRunInFlight ==
    /\ [](inFlight <= 1)
    /\ [][(RunInFlight /\ awaitAllCall) =>
            /\ last'.outcome = "StateError"
            /\ last'.engine = "none"
            /\ run' = run
            /\ UNCHANGED <<inFlight, queued, active, stream, running>>]_vars

\* a second awaitAll was refused while the tasks of the first were being computed
C1_Witness ==
    /\ RunInFlight
    /\ active # {}
    /\ last = Call("awaitAll", "StateError", "none", 0)

\* C2: the callback is invoked exactly once per accepted task (of those not
\* dropped by clear), and when the awaitAll promise is resolved every accepted
\* task that was part of a run has had its one invocation.
C2_CallbackOncePerTask ==
    /\ \A id \in TaskIds : invoked[id] <= 1
    /\ \A id \in TaskIds : invoked[id] = 1 => id \in accepted \ cleared
    /\ promise = "resolved" =>
           \A id \in accepted \ (cleared \cup queued) : invoked[id] = 1

\* C3: while a run is in flight enqueueRoute and clear are refused with the
\* state error, issue no engine call and leave the queued and active tasks alone.
C3_RejectedWhileProcessing ==
    [][(RunInFlight /\ (enqueueRoute \/ clear)) =>
            /\ last'.outcome = "StateError"
            /\ last'.engine = "none"
            /\ UNCHANGED <<queued, active, stream, accepted, cleared>>]_vars

\* clear was refused while one task was queued behind an active one
C3_Witness ==
    /\ RunInFlight
    /\ queued # {}
    /\ active # {}
    /\ last = Call("clear", "StateError", "none", 0)

\* a step that resolves the promise of the run in flight
ResolveStep == (Poll \/ Deliver) /\ promise' = "resolved"

\* C4: the awaitAll promise resolves once queuedTasks + activeTasks = 0,
\* whatever the outcomes: a run in flight whose queue is empty and whose
\* completions have all been handed over can resolve.
C4_ResolvesOnQueueEmpty ==
    (RunInFlight /\ getStatus.queuedTasks + getStatus.activeTasks = 0 /\ stream = {})
        => ENABLED ResolveStep

\* the handler runs for the completion of a task the engine failed on
DeliverFailure == Deliver /\ \E e \in stream : stream' = stream \ {e} /\ result[e.id].isError

\* a step by which a run in flight moves on
RunStep == Dispatch \/ Finish \/ Deliver \/ ResolveStep

\* C5: an engine failure reaches the callback as (id, null, error) and never
\* as a rejection of awaitAll; handing it over takes no sibling out of the
\* engine queue or the completion stream, it counts towards the completion of
\* the batch like any other outcome, and the run can always move on.
C5_ArgsOfFailure ==
    /\ \A id \in TaskIds : invoked[id] > 0 =>
           /\ result[id].isError => args[id] = [result |-> "null", error |-> TRUE]
           /\ ~result[id].isError => ~args[id].error
    /\ last.op = "awaitAll" => last.outcome \in {"StateError", "pending", "resolved"}
    /\ (revision = "modules" /\ run > 0) =>
           completedTasks = Cardinality(handled \ thrown)
    /\ (RunInFlight /\ thrown = {}) => ENABLED RunStep

C5_FailureDoesNotAbort ==
    /\ []C5_ArgsOfFailure
    /\ [][DeliverFailure =>
            /\ UNCHANGED <<queued, active, running, last>>
            /\ Cardinality(stream') = Cardinality(stream) - 1]_vars

\* a batch resolved although one task failed, its sibling having got a route
C5_Witness ==
    /\ promise = "resolved"
    /\ thrown = {}
    /\ \E a, b \in handled :
        /\ result[a].isError /\ args[a].error
        /\ result[b] = FoundRoute /\ args[b].result = "route"

\* a result that is null or carries no path element
HasNoPath(r) == r.isNull \/ (r.nodes = 0 /\ r.ways = 0)

engineLoadGraph ==
    /\ engineGraphs' = engineGraphs \cup {nextGraph}
    /\ nextGraph' = nextGraph + 1
    /\ engineLoads' = engineLoads + 1

\* unloadGraph(graphId) -> bool: releases the handle
engineUnloadGraph(h) ==
    /\ engineGraphs' = engineGraphs \ {h}
    /\ UNCHANGED <<nextGraph, engineLoads, releases>>

\* cleanupGraphStore() -> bool: releases the graph store
engineCleanupGraphStore ==
    /\ engineGraphs' = {}
    /\ UNCHANGED <<nextGraph, engineLoads>>

\* createRouteQueue(graphId, ...) -> queueId: the next free queue id
FreeQueueIds == {q \in QueueIds : queueGraph[q] = NoGraph}
NewQueueId == CHOOSE q \in FreeQueueIds : \A o \in FreeQueueIds : q <= o
engineCreateRouteQueue(h) ==
    queueGraph' = [queueGraph EXCEPT ![NewQueueId] = h]

\* cleanupRouteQueue(queueId) for every queue id of the sequence qs
RECURSIVE ReleaseAll(_, _)
ReleaseAll(rel, qs) ==
    IF qs = <<>> THEN rel
    ELSE ReleaseAll([rel EXCEPT ![Head(qs)] = @ + 1], Tail(qs))

(* ------------------- Graph and Profile, revision "modules" ------------- *)
\* mutant: the cached handle is not consulted
loadGuard_off == FALSE

\* if (this.graphId !== null) return this.graphId
loadGuard == graphId # NoGraph

\* mutant: the guard is missing
notLoadedGuard_off == FALSE

\* if (this.graph.graphId === null) throw new Error("Graph is not loaded.")
notLoadedGuard == graphId = NoGraph

ProfileOps == {"getNearestNode", "getNodesInRadius", "getWaysInRadius", "getRoute",
               "getNode", "getShape"}
LoadedOps == ProfileOps \cup {"createRouteQueue"}

\* the Profiles constructed on the graph
Constructed == {profiles[i] : i \in 1..Len(profiles)}

\* new graph.Profile(options): super(options), then
\* parentGraph.profiles.push(this.rawProfile)
graphProfile ==
    /\ revision = "modules"
    /\ \E p \in ProfileIds \ Constructed : profiles' = Append(profiles, p)
    /\ last' = Call("new Profile", "ok", "none", NoGraph)
    /\ UNCHANGED <<revision, utilVars, telemetryVars, registered, engineProfile, queueVars,
                   graphVars>>

loadGraph ==
    /\ revision = "modules"
    /\ IF loadGuard
           THEN /\ last' = Call("loadGraph", "ok", "none", graphId)
                /\ UNCHANGED graphVars
           ELSE /\ engineLoads < MaxLoads
                /\ engineLoadGraph
                /\ graphId' = nextGraph
                /\ last' = Call("loadGraph", "ok", "loadGraph", nextGraph)
                /\ UNCHANGED <<loading, queueIds, queueGraph, releases>>
    /\ registered' = IF loadGuard THEN registered ELSE profiles
    /\ UNCHANGED <<revision, utilVars, telemetryVars, profiles, engineProfile, queueVars>>

unloadGraph ==
    /\ revision = "modules"
    /\ IF graphId = NoGraph
           THEN /\ last' = Call("unloadGraph", "false", "none", NoGraph)
                /\ UNCHANGED graphVars
           ELSE /\ engineUnloadGraph(graphId)
                /\ last' = Call("unloadGraph",
                                IF graphId \in engineGraphs THEN "true" ELSE "false",
                                "unloadGraph", graphId)
                /\ UNCHANGED <<graphId, loading, queueIds, queueGraph>>
    /\ UNCHANGED <<revision, toolVars, queueVars>>

\* getNearestNode, getNodesInRadius, getWaysInRadius, getRoute, getNode, getShape
\* of a Profile
profileOp ==
    /\ revision = "modules"
    /\ \E op \in ProfileOps, p \in Constructed :
        IF notLoadedGuard
            THEN /\ last' = Call(op, "NotLoaded", "none", NoGraph)
                 /\ UNCHANGED engineProfile
            ELSE /\ last' = Call(op, "issued", op, graphId)
                 /\ engineProfile' = p
    /\ UNCHANGED <<revision, utilVars, telemetryVars, profiles, registered, queueVars,
                   graphVars>>

createRouteQueue ==
    /\ revision = "modules"
    /\ \E p \in Constructed :
        IF notLoadedGuard
            THEN /\ last' = Call("createRouteQueue", "NotLoaded", "none", NoGraph)
                 /\ UNCHANGED <<graphVars, engineProfile>>
            ELSE /\ FreeQueueIds # {}
                 /\ engineCreateRouteQueue(graphId)
                 /\ engineProfile' = p
                 /\ last' = Call("createRouteQueue", "issued", "createRouteQueue", graphId)
                 /\ UNCHANGED <<graphId, loading, queueIds, engineGraphs, nextGraph,
                                engineLoads, releases>>
    /\ UNCHANGED <<revision, utilVars, telemetryVars, profiles, registered, queueVars>>

(* ------------------------ Graph, revision "legacy" --------------------- *)
\* if (this.graph === null) throw new Error("Graph is not loaded")
notLoadedGuardLegacy == graphId = NoGraph

GraphOps == {"getRoute", "getNearestNodes", "getNodes", "getShape"}

\* loadGraph up to its await: await loadOSMGraph(this.options.osmGraph)
loadGraphLegacy ==
    /\ revision = "legacy"
    /\ engineLoads + Len(loading) < MaxLoads
    /\ loading' = Append(loading, engineLoads)
    /\ last' = Call("loadGraph", "pending", "none", NoGraph)
    /\ UNCHANGED <<revision, toolVars, queueVars, graphId, queueIds, engineGraphs, nextGraph,
                   engineLoads, queueGraph, releases>>

\* loadGraph after its await: this.graph = createGraphStore(); loadAndIndexGraph(...)
resumeLoad(i) ==
    /\ revision = "legacy"
    /\ loading' = SubSeq(loading, 1, i - 1) \o SubSeq(loading, i + 1, Len(loading))
    /\ engineLoadGraph
    /\ graphId' = nextGraph
    /\ UNCHANGED <<revision, toolVars, queueVars, queueIds, queueGraph, releases, last>>

\* one of the suspended loadGraph calls goes on
loadGraphLegacyResume == \E i \in 1..Len(loading) : resumeLoad(i)

graphOpLegacy ==
    /\ revision = "legacy"
    /\ \E op \in GraphOps :
        last' = IF notLoadedGuardLegacy
                    THEN Call(op, "NotLoaded", "none", NoGraph)
                    ELSE Call(op, "issued", op, graphId)
    /\ UNCHANGED <<revision, toolVars, queueVars, graphVars>>

createRouteQueueLegacy ==
    /\ revision = "legacy"
    /\ IF notLoadedGuardLegacy
           THEN /\ last' = Call("createRouteQueue", "NotLoaded", "none", NoGraph)
                /\ UNCHANGED graphVars
           ELSE /\ FreeQueueIds # {}
                /\ engineCreateRouteQueue(graphId)
                /\ queueIds' = Append(queueIds, NewQueueId)
                /\ last' = Call("createRouteQueue", "issued", "createRouteQueue", graphId)
                /\ UNCHANGED <<graphId, loading, engineGraphs, nextGraph, engineLoads,
                               releases>>
    /\ UNCHANGED <<revision, toolVars, queueVars>>

\* Graph.cleanup
cleanup ==
    /\ revision = "legacy"
    /\ \A q \in QueueIds : releases[q] < MaxReleases
    /\ graphId' = NoGraph
    /\ releases' = ReleaseAll(releases, queueIds)
    /\ engineCleanupGraphStore
    /\ last' = Call("cleanup", "true", "cleanupGraphStore", graphId)
    /\ UNCHANGED <<revision, toolVars, queueVars, loading, queueIds, queueGraph>>

\* RouteQueue.cleanup
queueCleanup ==
    /\ revision = "legacy"
    /\ \E q \in QueueIds :
        /\ queueGraph[q] # NoGraph
        /\ releases[q] < MaxReleases
        /\ releases' = [releases EXCEPT ![q] = @ + 1]
    /\ last' = Call("queue.cleanup", "ok", "cleanupRouteQueue", NoGraph)
    /\ UNCHANGED <<revision, toolVars, queueVars, graphId, loading, queueIds, engineGraphs,
                   nextGraph, engineLoads, queueGraph>>

\* a Graph object right after its construction, no queue yet
graphIdle ==
    /\ revision \in Revisions
    /\ maxConcurrency = 1
    /\ processing = FALSE
    /\ totalTasks = 0
    /\ completedTasks = 0
    /\ emptyCount = 0
    /\ run = 0
    /\ promise = "none"
    /\ inFlight = 0
    /\ queued = {}
    /\ active = {}
    /\ stream = {}
    /\ running = FALSE
    /\ accepted = {}
    /\ cleared = {}
    /\ result = [id \in TaskIds |-> NoResult]
    /\ invoked = [id \in TaskIds |-> 0]
    /\ args = [id \in TaskIds |-> NoArgs]
    /\ handled = {}
    /\ thrown = {}
    /\ last = Call("new Graph", "ok", "none", NoGraph)
    /\ graphId = NoGraph
    /\ loading = <<>>
    /\ queueIds = <<>>
    /\ engineGraphs = {}
    /\ nextGraph = 1
    /\ engineLoads = 0
    /\ queueGraph = [q \in QueueIds |-> NoGraph]
    /\ releases = [q \in QueueIds |-> 0]

GraphInit ==
    /\ graphIdle
    /\ toolIdle

GraphNext ==
    \/ loadGraph
    \/ unloadGraph
    \/ profileOp
    \/ createRouteQueue
    \/ loadGraphLegacy
    \/ loadGraphLegacyResume
    \/ graphOpLegacy
    \/ createRouteQueueLegacy
    \/ cleanup
    \/ queueCleanup

GraphSpec == GraphInit /\ [][GraphNext]_vars

\* C8: loadGraph on a Graph that is loaded returns the handle of the first
\* call, performs no engine load and changes nothing else.
C8_LoadGraphIdempotent ==
    [][(loadGraph /\ graphId \in engineGraphs) =>
            /\ last'.handle = graphId
            /\ last'.engine = "none"
            /\ UNCHANGED graphVars]_vars

\* a second loadGraph has returned handle 1 and the engine has loaded once
C8_Witness ==
    /\ last = Call("loadGraph", "ok", "none", 1)
    /\ graphId = 1
    /\ engineGraphs = {1}
    /\ engineLoads = 1

\* C9: after a successful unloadGraph the Graph is unloaded: an operation that
\* needs a loaded graph issues no engine call with a handle the engine has
\* released, it fails with the not-loaded error.
C9_UnloadInvalidates ==
    (last.op \in LoadedOps \cup GraphOps /\ last.outcome # "NotLoaded")
        => last.handle \in engineGraphs

\* C10: when unloadGraph or cleanup has completed, every RouteQueue created
\* against the graph has been released.
C10_UnloadCascades ==
    (last.op \in {"unloadGraph", "cleanup"} /\ last.outcome = "true")
        => \A q \in QueueIds : queueGraph[q] # NoGraph => releases[q] >= 1

\* C11: an operation that needs a loaded graph, invoked on a Graph that has not
\* been loaded, fails with the not-loaded error, issues no engine call and
\* leaves the Graph and the engine as they were.
C11_NotLoadedRejected ==
    [][((profileOp \/ createRouteQueue \/ graphOpLegacy \/ createRouteQueueLegacy)
            /\ graphId = NoGraph) =>
            /\ last'.outcome = "NotLoaded"
            /\ last'.engine = "none"
            /\ UNCHANGED graphVars]_vars

\* createRouteQueue was refused on a Graph never loaded, after a radius search
\* could not have reached the engine either
C11_Witness ==
    /\ last = Call("createRouteQueue", "NotLoaded", "none", NoGraph)
    /\ revision = "modules"
    /\ graphId = NoGraph
    /\ engineLoads = 0
    /\ FreeQueueIds = QueueIds

(* ---------- the API as a whole: Graph, Profile, RouteQueue ("modules") --- *)
\* a RouteQueue object exists once createRouteQueue has returned one
queueCreated == queueGraph[1] # NoGraph

\* the calls on the RouteQueue object
queueCall ==
    /\ queueCreated
    /\ (enqueueRoute \/ clear \/ awaitAllCounting)

ApiInit == GraphInit /\ revision = "modules"

ApiNext ==
    \/ loadGraph
    \/ profileOp
    \/ createRouteQueue
    \/ queueCall
    \/ Dispatch
    \/ Finish
    \/ Deliver

ApiSpec == ApiInit /\ [][ApiNext]_vars

\* C12 (as stated): StateError and NotLoadedError are thrown by the offending
\* call itself, also by awaitAll and getRoute; none comes as a rejected promise.
C12_ThrownAtCallSite ==
    last.outcome \in Errors => last.how = "thrown"

\* C12 (amended): the error is decided by the offending call itself, before any
\* engine call and without a callback invocation; the synchronous entry points
\* throw it, awaitAll and getRoute return a promise rejected with it.
C12_ErrorOfTheCall ==
    /\ [](last.outcome \in Errors =>
            /\ last.engine = "none"
            /\ last.op \in {"awaitAll", "getRoute"} => last.how = "rejected"
            /\ last.op \notin {"awaitAll", "getRoute"} => last.how = "thrown")
    /\ [][(last'.outcome \in Errors /\ last' # last) =>
            UNCHANGED <<queueVars, graphVars>>]_vars

\* a second awaitAll came back rejected while a task of the run was being computed
C12_Witness ==
    /\ last = Call("awaitAll", "StateError", "none", 0)
    /\ last.how = "rejected"
    /\ RunInFlight
    /\ active # {}

(* ------------- RouteQueue with its cleanup (revision "legacy") ---------- *)
\* cleanupRouteQueue(queueId) -> bool: the engine releases the queue; whether the
\* tasks still waiting in it go with it is the engine's affair
engineCleanupRouteQueue ==
    /\ releases' = [releases EXCEPT ![1] = @ + 1]
    /\ \E dropped \in BOOLEAN : queued' = IF dropped THEN {} ELSE queued
    /\ UNCHANGED <<active, stream, running>>

\* RouteQueue.cleanup: cleanupRouteQueue(this.queueId), whatever this.processing
cleanupCall ==
    /\ revision = "legacy"
    /\ releases[1] < MaxReleases
    /\ engineCleanupRouteQueue
    /\ last' = Call("queue.cleanup", "ok", "cleanupRouteQueue", NoGraph)
    /\ UNCHANGED <<revision, toolVars, maxConcurrency, processing, totalTasks, completedTasks,
                   emptyCount, run, promise, inFlight, accepted, cleared, result,
                   invoked, args, handled, thrown, graphId, loading, queueIds,
                   engineGraphs, nextGraph, engineLoads, queueGraph>>

CleanupNext == Next \/ cleanupCall

CleanupSpec == Init /\ [][CleanupNext]_vars

\* a call on the queue object, as opposed to a step of the engine or the timer
queueApiCall == enqueueRoute \/ clear \/ getStatusCall \/ awaitAllCall \/ cleanupCall

\* C13: while a run is in flight no call on the queue removes, cancels or
\* releases a task of the batch: the queued and active tasks and the pending
\* completions are as before the call and no release reaches the engine.
C13_NoMidFlightCancel ==
    [][(RunInFlight /\ queueApiCall) =>
            UNCHANGED <<queued, active, stream, releases>>]_vars

\* C14: clear() with no run in flight leaves queuedTasks at 0 and touches no
\* task already dispatched; a task it dropped is never dispatched afterwards:
\* it is in no engine set, gets no result and no callback.
C14_ClearDrops ==
    /\ [](\A id \in cleared :
            /\ id \notin queued \cup active
            /\ \A e \in stream : e.id # id
            /\ result[id] = NoResult
            /\ invoked[id] = 0)
    /\ [][(clear /\ ~RunInFlight) =>
            /\ getStatus'.queuedTasks = 0
            /\ last'.engine = "clearRouteQueue"
            /\ UNCHANGED <<active, stream>>]_vars

\* an awaitAll that came after a clear has run to its end: the task enqueued
\* after the clear was handled, the dropped one was not
C14_Witness ==
    /\ last = Call("awaitAll", "pending", "processQueue", 0)
    /\ promise = "resolved"
    /\ cleared # {}
    /\ handled # {}

(* ------------------- construction of a RouteQueue ---------------------- *)
MaxCpus == 3
CpuCounts == 1..MaxCpus
ConcurrencyArgs == {Omitted} \cup {Given(n) : n \in 1..MaxConcurrency}

\* maxConcurrency: number = cpus().length - 1
defaultConcurrency(cpuCount) == cpuCount - 1

\* the bound the constructor hands to createRouteQueue
constructorConcurrency(arg, cpuCount) ==
    IF arg.given THEN arg.value ELSE defaultConcurrency(cpuCount)

\* new RouteQueue(graphId, ..., maxConcurrency) on a host with cpuCount CPUs
HostInit ==
    /\ queueIdle
    /\ host \in [cpuCount : CpuCounts, arg : ConcurrencyArgs]
    /\ profileIdle
    /\ shapeIdle
    /\ offsetIdle
    /\ registryIdle
    /\ telemetryIdle
    /\ maxConcurrency = constructorConcurrency(host.arg, host.cpuCount)

HostSpec == HostInit /\ [][Next]_vars

\* C15: the bound handed to the engine is the caller's maxConcurrency or, when
\* omitted, the CPU count minus 1 but not less than 1: it is never below 1.
C15_BoundAtLeastOne ==
    /\ host.arg.given => maxConcurrency = host.arg.value
    /\ ~host.arg.given =>
           maxConcurrency = IF host.cpuCount - 1 < 1 THEN 1 ELSE host.cpuCount - 1
    /\ maxConcurrency >= 1

(* ----------------------- construction of a Profile --------------------- *)
MaxEntries == 2
MaxTags == 2

TagValues == {"path", "track", "default"}
Weights == {1, 2}
TagNames == {"access", "oneway", "foot"}

\* the key of a penalty entry: one value, or an array of at most two values
EntryKeys ==
    {[isArray |-> FALSE, names |-> <<v>>] : v \in TagValues}
        \cup {[isArray |-> TRUE, names |-> <<>>]}
        \cup {[isArray |-> TRUE, names |-> <<v>>] : v \in TagValues}
        \cup {[isArray |-> TRUE, names |-> <<v, w>>] : v \in TagValues, w \in TagValues}

\* a penalty entry [key, value]
Entries == {[key |-> k, weight |-> w] : k \in EntryKeys, w \in Weights}

SeqsUpTo(S, n) == UNION {[1..k -> S] : k \in 0..n}

\* accessTags / onewayTags: left out, or a list of tag names
NoTags == [given |-> FALSE, tags |-> <<>>]
TagLists == {NoTags} \cup {[given |-> TRUE, tags |-> t] : t \in SeqsUpTo(TagNames, MaxTags)}

\* the ProfileOptions tried: the penalties and the tag lists are converted
\* apart from each other, so each is varied with the other at its simplest
ProfileOptions ==
    {[penalties |-> t, accessTags |-> NoTags, onewayTags |-> NoTags] :
        t \in SeqsUpTo(Entries, MaxEntries)}
    \cup {[penalties |-> <<>>, accessTags |-> a, onewayTags |-> o] :
        a \in TagLists, o \in TagLists}

\* mutant: a key already present keeps its weight
setKey_keepFirst(m, k, v) ==
    IF k \in DOMAIN m THEN m
    ELSE [x \in DOMAIN m \cup {k} |-> IF x = k THEN v ELSE m[x]]

\* convertedPenalties[k] = value
setKey(m, k, v) == [x \in DOMAIN m \cup {k} |-> IF x = k THEN v ELSE m[x]]

\* for (const k of key) convertedPenalties[k] = value
RECURSIVE setKeys(_, _, _)
setKeys(m, names, v) ==
    IF names = <<>> THEN m
    ELSE setKeys(setKey(m, Head(names), v), Tail(names), v)

\* for (const [key, value] of profile.penalties) ...
RECURSIVE convertPenalties(_, _)
convertPenalties(m, penalties) ==
    IF penalties = <<>> THEN m
    ELSE convertPenalties(setKeys(m, Head(penalties).key.names, Head(penalties).weight),
                          Tail(penalties))

\* mutant: the list is not passed through a Set
setToArray_asIs(list) == list

\* Array.from(new Set(list)): the first occurrence of each element, in order
RECURSIVE setToArray(_)
setToArray(list) ==
    IF list = <<>> THEN <<>>
    ELSE LET init == setToArray(SubSeq(list, 1, Len(list) - 1))
             x == list[Len(list)]
         IN IF \E i \in 1..Len(init) : init[i] = x THEN init ELSE Append(init, x)

\* Array.from(new Set([...(tags ?? []), canonical]))
canonicalTags(tags, canonical) ==
    setToArray((IF tags.given THEN tags.tags ELSE <<>>) \o <<canonical>>)

\* new Profile(options): this.rawProfile = {...}
newProfile ==
    /\ rawProfile = NoRawProfile
    /\ rawProfile' = [built |-> TRUE,
                      penalties |-> convertPenalties(<<>>, profile.penalties),
                      access_tags |-> canonicalTags(profile.accessTags, "access"),
                      oneway_tags |-> canonicalTags(profile.onewayTags, "oneway")]
    /\ UNCHANGED <<revision, queueVars, graphVars, last, host, profile, shape, epsilon,
                   simplified, offsetArgs, offsetted, registryVars, telemetryVars>>

ProfileInit ==
    /\ graphIdle
    /\ revision = "modules"
    /\ hostIdle
    /\ shapeIdle
    /\ offsetIdle
    /\ registryIdle
    /\ telemetryIdle
    /\ profile \in ProfileOptions
    /\ rawProfile = NoRawProfile

ProfileNext == newProfile

ProfileSpec == ProfileInit /\ [][ProfileNext]_vars

\* the values an entry names, and the entries of a table that name a value
Named(entry) == {entry.key.names[i] : i \in 1..Len(entry.key.names)}
Naming(table, v) == {i \in 1..Len(table) : v \in Named(table[i])}
Latest(S) == CHOOSE i \in S : \A j \in S : j <= i

\* C16: the flattened penalties have exactly the values the table names as
\* keys, each with the weight of the last entry that names it; "default" is a
\* key like any other.
C16_PenaltiesFlattened ==
    rawProfile.built =>
        LET table == profile.penalties
            flat == rawProfile.penalties
        IN /\ DOMAIN flat = {v \in TagValues : Naming(table, v) # {}}
           /\ \A v \in DOMAIN flat : flat[v] = table[Latest(Naming(table, v))].weight
           /\ ("default" \in DOMAIN flat) <=> (Naming(table, "default") # {})

\* "track" stands alone with weight 1 and again in a later group with weight 2,
\* beside "default": the later weight is the one kept
C16_Witness ==
    /\ rawProfile.built
    /\ profile.penalties =
           <<[key |-> [isArray |-> FALSE, names |-> <<"track">>], weight |-> 1],
             [key |-> [isArray |-> TRUE, names |-> <<"default", "track">>], weight |-> 2]>>
    /\ rawProfile.penalties["track"] = 2
    /\ rawProfile.penalties["default"] = 2

\* how often x occurs in a list
Count(list, x) == Cardinality({i \in 1..Len(list) : list[i] = x})
Elements(list) == {list[i] : i \in 1..Len(list)}

\* C17: access_tags holds each distinct supplied tag once and "access" once,
\* and nothing else; oneway_tags likewise with "oneway".
C17_TagsOnceEach ==
    rawProfile.built =>
        /\ Elements(rawProfile.access_tags) =
               Elements(profile.accessTags.tags) \cup {"access"}
        /\ \A t \in Elements(rawProfile.access_tags) : Count(rawProfile.access_tags, t) = 1
        /\ Elements(rawProfile.oneway_tags) =
               Elements(profile.onewayTags.tags) \cup {"oneway"}
        /\ \A t \in Elements(rawProfile.oneway_tags) : Count(rawProfile.oneway_tags, t) = 1

\* accessTags repeat "foot" and onewayTags already hold "oneway"
C17_Witness ==
    /\ rawProfile.built
    /\ profile.accessTags = [given |-> TRUE, tags |-> <<"foot", "foot">>]
    /\ profile.onewayTags = [given |-> TRUE, tags |-> <<"oneway", "foot">>]
    /\ rawProfile.access_tags = <<"foot", "access">>
    /\ rawProfile.oneway_tags = <<"oneway", "foot">>

(* ------------------------------ simplifyShape -------------------------- *)
MaxLen == 4

\* coordinates on a small grid; numbers are exact fractions num/den, den > 0
Lons == {0, 1, 2}
Lats == {0, 1}
Points == Lons \X Lats
Shapes == SeqsUpTo(Points, MaxLen)
Epsilons == {[num |-> -1, den |-> 1], [num |-> 0, den |-> 1], [num |-> 1, den |-> 2],
             [num |-> 1, den |-> 1], [num |-> 2, den |-> 1]}

Sq(x) == x * x

\* Math.pow(p[0] - q[0], 2) + Math.pow(p[1] - q[1], 2)
distanceSquared(p, q) == Sq(p[1] - q[1]) + Sq(p[2] - q[2])

\* mutant: the distance is always taken to the start of the chord
perpendicularDistance_toStart(p, a, b) == [num |-> distanceSquared(p, a), den |-> 1]

\* perpendicularDistance(point, lineStart, lineEnd). The distances of the code
\* are never negative and are only compared, so the operator gives the square
\* of the distance, as an exact fraction.
perpendicularDistance(p, a, b) ==
    LET lineLengthSquared == distanceSquared(a, b)
        dot == (p[1] - a[1]) * (b[1] - a[1]) + (p[2] - a[2]) * (b[2] - a[2])
        cross == (p[1] - a[1]) * (b[2] - a[2]) - (p[2] - a[2]) * (b[1] - a[1])
    IN IF lineLengthSquared = 0 THEN [num |-> distanceSquared(p, a), den |-> 1]
       ELSE IF dot <= 0 THEN [num |-> distanceSquared(p, a), den |-> 1]    \* clampedT = 0
       ELSE IF dot >= lineLengthSquared
                THEN [num |-> distanceSquared(p, b), den |-> 1]            \* clampedT = 1
       ELSE [num |-> Sq(cross), den |-> lineLengthSquared]

\* distance > maxDistance, on squares of distances
FurtherThan(d, e) == d.num * e.den > e.num * d.den

\* furthestDistance > epsilon, a squared distance against an epsilon
Exceeds(d, eps) ==
    IF eps.num < 0 THEN TRUE
    ELSE d.num * Sq(eps.den) > Sq(eps.num) * d.den

\* the loop of findFurthestPoint from index i on (indices count from 0)
RECURSIVE furthestFrom(_, _, _)

\* mutant: on equal distances the later point wins
furthestFrom_lastOnTie(points, i, best) ==
    IF i >= Len(points) - 1 THEN best
    ELSE LET distance == perpendicularDistance(points[i + 1], points[1], points[Len(points)])
         IN furthestFrom(points, i + 1,
                         IF ~FurtherThan(best.distance, distance)
                             THEN [index |-> i, distance |-> distance]
                             ELSE best)

furthestFrom(points, i, best) ==
    IF i >= Len(points) - 1 THEN best
    ELSE LET distance == perpendicularDistance(points[i + 1], points[1], points[Len(points)])
         IN furthestFrom(points, i + 1,
                         IF FurtherThan(distance, best.distance)
                             THEN [index |-> i, distance |-> distance]
                             ELSE best)

\* mutant: the loop starts one point too late
findFurthestPoint_skipFirst(points) ==
    IF Len(points) <= 2 THEN [index |-> 0, distance |-> [num |-> 0, den |-> 1]]
    ELSE furthestFrom(points, 2, [index |-> 0, distance |-> [num |-> 0, den |-> 1]])

findFurthestPoint(points) ==
    IF Len(points) <= 2 THEN [index |-> 0, distance |-> [num |-> 0, den |-> 1]]
    ELSE furthestFrom(points, 1, [index |-> 0, distance |-> [num |-> 0, den |-> 1]])

RECURSIVE rdpSimplify(_, _)

\* mutant: the two halves are joined with the split point in both
rdpSimplify_keepBoundary(points, eps) ==
    IF Len(points) <= 2 THEN points
    ELSE LET furthest == findFurthestPoint(points)
         IN IF Exceeds(furthest.distance, eps)
                THEN rdpSimplify(SubSeq(points, 1, furthest.index + 1), eps)
                        \o rdpSimplify(SubSeq(points, furthest.index + 1, Len(points)), eps)
                ELSE <<points[1], points[Len(points)]>>

\* mutant: the second half starts after the split point, which is lost
rdpSimplify_splitPointLost(points, eps) ==
    IF Len(points) <= 2 THEN points
    ELSE LET furthest == findFurthestPoint(points)
         IN IF Exceeds(furthest.distance, eps)
                THEN LET simplifiedFirst ==
                             rdpSimplify(SubSeq(points, 1, furthest.index + 1), eps)
                         simplifiedSecond ==
                             rdpSimplify(SubSeq(points, furthest.index + 2, Len(points)), eps)
                     IN SubSeq(simplifiedFirst, 1, Len(simplifiedFirst) - 1)
                            \o simplifiedSecond
                ELSE <<points[1], points[Len(points)]>>

rdpSimplify(points, eps) ==
    IF Len(points) <= 2 THEN points
    ELSE LET furthest == findFurthestPoint(points)
         IN IF Exceeds(furthest.distance, eps)
                THEN LET simplifiedFirst ==
                             rdpSimplify(SubSeq(points, 1, furthest.index + 1), eps)
                         simplifiedSecond ==
                             rdpSimplify(SubSeq(points, furthest.index + 1, Len(points)), eps)
                     IN SubSeq(simplifiedFirst, 1, Len(simplifiedFirst) - 1)
                            \o simplifiedSecond
                ELSE <<points[1], points[Len(points)]>>

\* mutant: the guard of the default export is missing
simplifyShape_noGuard(shapePoints, eps) == rdpSimplify(shapePoints, eps)

\* the default export: if (!shapePoints?.length || epsilon <= 0) return shapePoints
simplifyShape(shapePoints, eps) ==
    IF Len(shapePoints) = 0 \/ eps.num <= 0 THEN shapePoints
    ELSE rdpSimplify(shapePoints, eps)

\* a call of simplifyShape
simplifyShapeCall ==
    /\ ~simplified.called
    /\ simplified' = [called |-> TRUE, points |-> simplifyShape(shape, epsilon)]
    /\ UNCHANGED <<revision, queueVars, graphVars, last, host, profile, rawProfile,
                   shape, epsilon, offsetArgs, offsetted, registryVars, telemetryVars>>

ShapeInit ==
    /\ graphIdle
    /\ revision = "modules"
    /\ hostIdle
    /\ profileIdle
    /\ offsetIdle
    /\ registryIdle
    /\ telemetryIdle
    /\ shape \in Shapes
    /\ epsilon \in Epsilons
    /\ simplified = NotCalled

ShapeNext == simplifyShapeCall

ShapeSpec == ShapeInit /\ [][ShapeNext]_vars

\* C18: with epsilon <= 0 or at most 2 points simplifyShape returns its input.
C18_InputUnchanged ==
    (simplified.called /\ (epsilon.num <= 0 \/ Len(shape) <= 2))
        => simplified.points = shape

\* three points with a bend came back as they were, epsilon being negative
C18_Witness ==
    /\ simplified.called
    /\ epsilon.num < 0
    /\ shape = <<<<0, 0>>, <<1, 1>>, <<2, 0>>>>
    /\ simplified.points = shape

\* the interior points of a shape
Interior(points) == {points[i] : i \in 2..(Len(points) - 1)}

\* squared perpendicular deviation of p from the line through a and b (from the
\* point a when a = b)
LineDeviation(p, a, b) ==
    IF a = b THEN [num |-> distanceSquared(p, a), den |-> 1]
    ELSE [num |-> Sq((p[1] - a[1]) * (b[2] - a[2]) - (p[2] - a[2]) * (b[1] - a[1])),
          den |-> distanceSquared(a, b)]

\* the foot of the perpendicular from p lies on the chord from a to b
FootOnChord(p, a, b) ==
    LET dot == (p[1] - a[1]) * (b[1] - a[1]) + (p[2] - a[2]) * (b[2] - a[2])
    IN a # b /\ 0 <= dot /\ dot <= distanceSquared(a, b)

\* squared distance of p from the chord taken as a segment
ChordDistance(p, a, b) ==
    IF FootOnChord(p, a, b) THEN LineDeviation(p, a, b)
    ELSE IF distanceSquared(p, a) <= distanceSquared(p, b)
             THEN [num |-> distanceSquared(p, a), den |-> 1]
             ELSE [num |-> distanceSquared(p, b), den |-> 1]

\* epsilon > the distance whose square is d
Above(eps, d) == eps.num > 0 /\ Sq(eps.num) * d.den > d.num * Sq(eps.den)

\* C19 (as stated): more than 2 points, epsilon > 0 and above the perpendicular
\* deviation of every interior point from the first/last chord: the result is
\* [first, last].
C19_CollapseByDeviation ==
    (/\ simplified.called
     /\ Len(shape) > 2
     /\ epsilon.num > 0
     /\ \A p \in Interior(shape) :
            Above(epsilon, LineDeviation(p, shape[1], shape[Len(shape)])))
        => simplified.points = <<shape[1], shape[Len(shape)]>>

\* C19 (amended): the same with the distance of every interior point from the
\* chord as a segment: the perpendicular deviation where its foot is on the
\* chord, the distance to the nearer end of the chord where it is not.
C19_CollapseByChordDistance ==
    (/\ simplified.called
     /\ Len(shape) > 2
     /\ epsilon.num > 0
     /\ \A p \in Interior(shape) :
            Above(epsilon, ChordDistance(p, shape[1], shape[Len(shape)])))
        => simplified.points = <<shape[1], shape[Len(shape)]>>

\* a bend of deviation 1 and a point on the chord, epsilon 2: two points are left
C19_Witness ==
    /\ simplified.called
    /\ epsilon = [num |-> 2, den |-> 1]
    /\ shape = <<<<0, 0>>, <<1, 1>>, <<1, 0>>, <<2, 0>>>>
    /\ simplified.points = <<<<0, 0>>, <<2, 0>>>>

\* out is in, with some elements left out
RECURSIVE IsSubsequence(_, _)
IsSubsequence(out, in) ==
    IF out = <<>> THEN TRUE
    ELSE IF in = <<>> THEN FALSE
    ELSE IF Head(out) = Head(in) THEN IsSubsequence(Tail(out), Tail(in))
    ELSE IsSubsequence(out, Tail(in))

\* C20: for a non-empty input the output is a subsequence of the input, in the
\* input's order, that begins with its first and ends with its last point.
C20_SubsequenceWithEnds ==
    (simplified.called /\ Len(shape) >= 1) =>
        /\ IsSubsequence(simplified.points, shape)
        /\ Len(simplified.points) >= 1
        /\ simplified.points[1] = shape[1]
        /\ simplified.points[Len(simplified.points)] = shape[Len(shape)]

\* of four points the bend was kept and the point on the way to it dropped
C20_Witness ==
    /\ simplified.called
    /\ epsilon = [num |-> 1, den |-> 2]
    /\ shape = <<<<0, 0>>, <<1, 0>>, <<2, 1>>, <<2, 0>>>>
    /\ simplified.points = <<<<0, 0>>, <<2, 1>>, <<2, 0>>>>

(* ------------------------------ offsetShape ---------------------------- *)
MaxOffsetLen == 3

\* x < 1e-10, with 1e10 split in two factors to stay within the integers
BelowTiny(x) == x.num * 100000 < (x.den + 99999) \div 100000

\* Math.sqrt, on the squares of fractions
IsSquare(n) == \E r \in 0..n : r * r = n
Root(n) == CHOOSE r \in 0..n : r * r = n
sqrt(x) == Frac(Root(x.num), Root(x.den))

\* Math.cos of an angle in degrees, at the angles where it is a fraction
cosDegrees(deg) ==
    CASE deg = Whole(0) -> Whole(1)
      [] deg = Whole(60) \/ deg = Whole(-60) -> Frac(1, 2)

\* offsetMeters is measured in units of (6371000 * Math.PI) / 180 metres,
\* the length of one degree of arc, so that offsetDeg is a fraction
offsetDeg(offsetMeters) == offsetMeters

\* the mean latitude of a segment, in degrees
averageLatitude(a, b) == Div(Add(a[2], b[2]), Whole(2))

\* dx * dx + dy * dy of processPointSegment
lengthSquared(a, b) ==
    LET lonFactor == cosDegrees(averageLatitude(a, b))
        dx == Mul(Sub(b[1], a[1]), lonFactor)
        dy == Sub(b[2], a[2])
    IN Add(Mul(dx, dx), Mul(dy, dy))

\* mutant: the segment is shifted whatever its length
processPointSegment_alwaysShift(a, b, offsetMeters) ==
    LET lon1 == a[1]
        lat1 == a[2]
        lon2 == b[1]
        lat2 == b[2]
        lonFactor == cosDegrees(averageLatitude(a, b))
        l == sqrt(lengthSquared(a, b))
        shiftX == Div(Mul(offsetDeg(offsetMeters), Sub(lat2, lat1)), Mul(l, lonFactor))
        shiftY == Div(Mul(offsetDeg(offsetMeters), Sub(lon1, lon2)), l)
    IN <<<<Add(lon1, shiftX), Add(lat1, shiftY)>>,
         <<Add(lon2, shiftX), Add(lat2, shiftY)>>>>

\* processPointSegment([lon1, lat1], [lon2, lat2], offsetMeters)
processPointSegment(a, b, offsetMeters) ==
    LET lon1 == a[1]
        lat1 == a[2]
        lon2 == b[1]
        lat2 == b[2]
        lonFactor == cosDegrees(averageLatitude(a, b))
        l == sqrt(lengthSquared(a, b))
        shiftX == Div(Mul(offsetDeg(offsetMeters), Sub(lat2, lat1)), Mul(l, lonFactor))
        shiftY == Div(Mul(offsetDeg(offsetMeters), Sub(lon1, lon2)), l)
    IN IF BelowTiny(l) THEN <<a, b>>
       ELSE <<<<Add(lon1, shiftX), Add(lat1, shiftY)>>,
              <<Add(lon2, shiftX), Add(lat2, shiftY)>>>>

NoIntersection == [found |-> FALSE, point |-> <<Whole(0), Whole(0)>>]

\* findIntersection(p1, p2, p3, p4): where the two lines cross, null if
\* |det| < 1e-10
findIntersection(p1, p2, p3, p4) ==
    LET a1 == Sub(p2[2], p1[2])
        b1 == Sub(p1[1], p2[1])
        c1 == Add(Mul(a1, p1[1]), Mul(b1, p1[2]))
        a2 == Sub(p4[2], p3[2])
        b2 == Sub(p3[1], p4[1])
        c2 == Add(Mul(a2, p3[1]), Mul(b2, p3[2]))
        det == Sub(Mul(a1, b2), Mul(a2, b1))
    IN IF BelowTiny(Magnitude(det)) THEN NoIntersection
       ELSE [found |-> TRUE,
             point |-> <<Div(Sub(Mul(b2, c1), Mul(b1, c2)), det),
                         Div(Sub(Mul(a1, c2), Mul(a2, c1)), det)>>]

\* the loop that offsets every segment of the input
offsetSegments(points, offsetMeters) ==
    [i \in 1..(Len(points) - 1) |->
        processPointSegment(points[i], points[i + 1], offsetMeters)]

\* mutant: the turn between the two segments is not looked at
joinable_anyTurn(p1, p2, p3) ==
    LET v1 == <<Sub(p2[1], p1[1]), Sub(p2[2], p1[2])>>
        v2 == <<Sub(p3[1], p2[1]), Sub(p3[2], p2[2])>>
        magSq1 == Add(Mul(v1[1], v1[1]), Mul(v1[2], v1[2]))
        magSq2 == Add(Mul(v2[1], v2[1]), Mul(v2[2], v2[2]))
    IN magSq1.num > 0 /\ magSq2.num > 0

\* mag1 > 0 && mag2 > 0 && normalizedDot >= -0.99, the last comparison
\* taken on squares
joinable(p1, p2, p3) ==
    LET v1 == <<Sub(p2[1], p1[1]), Sub(p2[2], p1[2])>>
        v2 == <<Sub(p3[1], p2[1]), Sub(p3[2], p2[2])>>
        dotProduct == Add(Mul(v1[1], v2[1]), Mul(v1[2], v2[2]))
        magSq1 == Add(Mul(v1[1], v1[1]), Mul(v1[2], v1[2]))
        magSq2 == Add(Mul(v2[1], v2[1]), Mul(v2[2], v2[2]))
    IN /\ magSq1.num > 0
       /\ magSq2.num > 0
       /\ \/ dotProduct.num >= 0
          \/ AtLeast(Mul(Frac(9801, 10000), Mul(magSq1, magSq2)),
                     Mul(dotProduct, dotProduct))

\* what the junction between segment i and segment i + 1 adds to the result
junction(points, segments, i) ==
    LET currentSeg == segments[i]
        nextSeg == segments[i + 1]
        intersection ==
            findIntersection(currentSeg[1], currentSeg[2], nextSeg[1], nextSeg[2])
    IN IF joinable(points[i], points[i + 1], points[i + 2]) /\ intersection.found
           THEN <<intersection.point>>
           ELSE <<currentSeg[2], nextSeg[1]>>

\* the junction of the earlier revision: the intersection alone decides
junctionEarlier(segments, i) ==
    LET currentSeg == segments[i]
        nextSeg == segments[i + 1]
        intersection ==
            findIntersection(currentSeg[1], currentSeg[2], nextSeg[1], nextSeg[2])
    IN IF intersection.found THEN <<intersection.point>>
       ELSE <<currentSeg[2], nextSeg[1]>>

RECURSIVE Flatten(_)
Flatten(lists) == IF lists = <<>> THEN <<>> ELSE Head(lists) \o Flatten(Tail(lists))

\* mutant: the end of the last offset segment is not pushed
offsetShape_endOmitted(points, offsetMeters) ==
    IF Len(points) < 2 THEN <<>>
    ELSE LET segments == offsetSegments(points, offsetMeters)
         IN <<segments[1][1]>>
                \o Flatten([i \in 1..(Len(segments) - 1) |-> junction(points, segments, i)])

\* the default export of tools/offsetShape.ts: (points, offsetMeters)
offsetShape(points, offsetMeters) ==
    IF Len(points) < 2 THEN <<>>
    ELSE LET segments == offsetSegments(points, offsetMeters)
         IN <<segments[1][1]>>
                \o Flatten([i \in 1..(Len(segments) - 1) |-> junction(points, segments, i)])
                \o <<segments[Len(segments)][2]>>

\* the default export of the earlier revision: (points, offsetMeters, offsetSide)
offsetShapeEarlier(points, offsetMeters, offsetSide) ==
    IF Len(points) < 2 THEN <<>>
    ELSE LET segments == offsetSegments(points, Mul(offsetMeters, Whole(offsetSide)))
         IN <<segments[1][1]>>
                \o Flatten([i \in 1..(Len(segments) - 1) |-> junctionEarlier(segments, i)])
                \o <<segments[Len(segments)][2]>>

\* the segments a call builds: the current export has no side parameter and
\* drops a third argument, the earlier one folds the side into the distance
segmentsOf(rev, points, offsetMeters, offsetSide) ==
    IF rev = "modules" THEN offsetSegments(points, offsetMeters)
    ELSE offsetSegments(points, Mul(offsetMeters, Whole(offsetSide)))

\* offsetShape(points, offsetMeters, offsetSide) on the current export
offsetShapeCall ==
    /\ revision = "modules"
    /\ ~offsetted.called
    /\ offsetted' = [called |-> TRUE,
                     segments |-> segmentsOf(revision, offsetArgs.points,
                                             offsetArgs.offsetMeters,
                                             offsetArgs.offsetSide),
                     points |-> offsetShape(offsetArgs.points, offsetArgs.offsetMeters)]
    /\ UNCHANGED <<revision, queueVars, graphVars, last, host, profile, rawProfile,
                   shape, epsilon, simplified, offsetArgs, registryVars, telemetryVars>>

\* offsetShape(points, offsetMeters, offsetSide) on the earlier export
offsetShapeEarlierCall ==
    /\ revision = "legacy"
    /\ ~offsetted.called
    /\ offsetted' = [called |-> TRUE,
                     segments |-> segmentsOf(revision, offsetArgs.points,
                                             offsetArgs.offsetMeters,
                                             offsetArgs.offsetSide),
                     points |-> offsetShapeEarlier(offsetArgs.points,
                                                   offsetArgs.offsetMeters,
                                                   offsetArgs.offsetSide)]
    /\ UNCHANGED <<revision, queueVars, graphVars, last, host, profile, rawProfile,
                   shape, epsilon, simplified, offsetArgs, registryVars, telemetryVars>>

\* input points around latitude 0 and around latitude 60, where Math.cos of
\* the mean latitude of a segment is 1 or 1/2; (6, 60) continues a
\* segment straight on, and the points at latitudes 12 and -12 give a turn
\* and a near-reversal between segments of lengths 25, 40 and 26
OffsetPoints ==
    {<<Whole(0), Whole(0)>>, <<Whole(3), Whole(0)>>, <<Whole(0), Whole(-2)>>,
     <<Whole(3), Whole(2)>>, <<Whole(0), Whole(60)>>, <<Whole(3), Whole(60)>>,
     <<Whole(0), Whole(58)>>, <<Whole(6), Whole(62)>>, <<Whole(6), Whole(58)>>,
     <<Whole(0), Whole(12)>>, <<Whole(7), Whole(-12)>>, <<Whole(-3), Whole(12)>>,
     <<Whole(39), Whole(12)>>, <<Whole(6), Whole(60)>>}

\* a segment whose lonFactor and length are fractions
Representable(a, b) ==
    /\ averageLatitude(a, b) \in {Whole(0), Whole(60), Whole(-60)}
    /\ IsSquare(lengthSquared(a, b).num)
    /\ IsSquare(lengthSquared(a, b).den)

OffsetShapes ==
    {s \in SeqsUpTo(OffsetPoints, MaxOffsetLen) :
        \A i \in 1..(Len(s) - 1) : Representable(s[i], s[i + 1])}

OffsetDistances == {Frac(1, 2), Whole(1), Whole(-1)}
Sides == {1, -1}

OffsetInit ==
    /\ graphIdle
    /\ revision \in Revisions
    /\ hostIdle
    /\ profileIdle
    /\ shapeIdle
    /\ registryIdle
    /\ telemetryIdle
    /\ offsetArgs \in [points : OffsetShapes, offsetMeters : OffsetDistances,
                       offsetSide : Sides]
    /\ offsetted = NoOffset

OffsetNext == offsetShapeCall \/ offsetShapeEarlierCall

OffsetSpec == OffsetInit /\ [][OffsetNext]_vars

\* the displacement that takes a point to its image
Displacement(from, to) == <<Sub(to[1], from[1]), Sub(to[2], from[2])>>
Opposite(d) == <<Neg(d[1]), Neg(d[2])>>

\* C21: offsetShape moves both endpoints of every segment by the same
\* displacement, and with the same distance the displacement for the other
\* side is the exact opposite of it.
C21_SideOpposes ==
    offsetted.called =>
        \A i \in 1..Len(offsetted.segments) :
            LET a == offsetArgs.points[i]
                b == offsetArgs.points[i + 1]
                other == segmentsOf(revision, offsetArgs.points, offsetArgs.offsetMeters,
                                    -offsetArgs.offsetSide)[i]
                moved == Displacement(a, offsetted.segments[i][1])
            IN /\ Displacement(b, offsetted.segments[i][2]) = moved
               /\ Displacement(a, other[1]) = Opposite(moved)
               /\ Displacement(b, other[2]) = Opposite(moved)

\* the same relation on the earlier export alone
C21_EarlierSideOpposes == (revision = "legacy") => C21_SideOpposes

C21_EarlierWitness ==
    /\ revision = "legacy"
    /\ offsetted.called
    /\ offsetArgs.offsetSide = -1
    /\ \E i \in 1..Len(offsetted.segments) :
           offsetted.segments[i][1] # offsetArgs.points[i]

(* --------------------- awaitAll: resolution and the flag --------------- *)
\* the caller's callback is invoked for a task
CallbackStep == \E id \in TaskIds : invoked'[id] = invoked[id] + 1

\* C22: every callback of a batch is invoked before the awaitAll of the batch
\* resolves: a callback is invoked only while the promise is pending, and at
\* the resolution no completion is left undelivered.
C22_CallbacksBeforeResolve ==
    [][/\ CallbackStep => promise = "pending"
       /\ ResolveStep => stream' = {}]_vars

\* the same on the revision that counts completions
C22_CountingCallbacksBeforeResolve ==
    [][(revision = "modules")
          => /\ CallbackStep => promise = "pending"
             /\ ResolveStep => stream' = {}]_vars

\* C23: an awaitAll run whose tasks all get their completion delivered
\* eventually resolves, with the processing flag back to false, also when the
\* callback raises for a task.
C23_EventuallyResolves == RunInFlight ~> (promise = "resolved" /\ ~processing)

\* the same on the revision that polls getStatus
C23_PollingEventuallyResolves ==
    (revision = "legacy" /\ RunInFlight) ~> (promise = "resolved" /\ ~processing)

\* C24: the processing flag is true exactly while an awaitAll run is in
\* flight: false before the first awaitAll, false once an awaitAll has
\* resolved, and then enqueueRoute, clear and awaitAll are accepted again.
C24_FlagWhileInFlight ==
    /\ [](processing <=> RunInFlight)
    /\ [][(promise = "resolved" /\ (enqueueRoute \/ clear \/ awaitAllCall))
              => last'.outcome # "StateError"]_vars

\* a batch was computed and resolved, and the next enqueueRoute was accepted
C24_Witness ==
    /\ promise = "resolved"
    /\ ~processing
    /\ run = 1
    /\ \E id \in TaskIds : invoked[id] = 1
    /\ last = Call("enqueueRoute", "ok", "enqueueRoute", 0)

\* awaitAll is invoked on a queue that accepts it and holds no queued task
EmptyAwaitAll == awaitAllCall /\ ~processing /\ getStatus.queuedTasks = 0

\* what such a call must leave behind
NothingStarted ==
    /\ promise' = "resolved"
    /\ processing' = FALSE
    /\ run' = run
    /\ last'.engine \notin {"processQueue", "startQueueProcessing"}
    /\ UNCHANGED <<running, invoked, inFlight>>

\* C25: awaitAll on a queue with no queued task resolves without starting
\* engine processing, without invoking the callback and without setting the
\* processing flag.
C25_EmptyAwaitAll == [][EmptyAwaitAll => NothingStarted]_vars

\* the same on the revision that counts completions
C25_CountingEmptyAwaitAll ==
    [][(revision = "modules" /\ EmptyAwaitAll) => NothingStarted]_vars

C25_CountingWitness ==
    /\ revision = "modules"
    /\ last = Call("awaitAll", "resolved", "getQueueStatus", 0)
    /\ promise = "resolved"
    /\ ~processing

(* --------------------------- awaitAll: counters ------------------------ *)
\* the tasks of the run in flight: those whose completion was handled and
\* those still queued, active or on their way to the JS thread
Batch == handled \cup queued \cup active \cup {e.id : e \in {c \in stream : c.run = run}}

\* a completion event of the run in flight reaches its handler
CompletionEvent == Deliver /\ handled' # handled

CountersInOrder ==
    /\ 0 <= emptyCount
    /\ emptyCount <= completedTasks
    /\ completedTasks <= Cardinality(Batch)

CountersAdvance ==
    /\ completedTasks' = IF CompletionEvent THEN completedTasks + 1 ELSE completedTasks
    /\ emptyCount' >= emptyCount

\* C26: within one awaitAll run the completed counter starts at 0, goes up by
\* exactly one per completion event and never down, the empty counter never
\* goes down, and 0 <= empty <= completed <= tasks queued at the start.
C26_Counters ==
    /\ [](RunInFlight => CountersInOrder)
    /\ [][(RunInFlight /\ run' = run) => CountersAdvance]_vars
    /\ [][(awaitAllCall /\ run' # run) => completedTasks' = 0]_vars

\* the same as long as no callback has raised
C26_CountersUnlessRaised ==
    /\ []((RunInFlight /\ thrown = {}) => CountersInOrder)
    /\ [][(RunInFlight /\ run' = run /\ thrown' = {}) => CountersAdvance]_vars
    /\ [][(awaitAllCall /\ run' # run) => completedTasks' = 0]_vars

(* ----------------------------- task lifecycle -------------------------- *)
\* the task has its terminal outcome: a value, an error or an empty result
Completed(id) == result[id] # NoResult

\* C27: a task is queued, then active, then has exactly one terminal outcome,
\* and never moves backwards; the callback for a task is invoked only on its
\* completion.
C27_TaskLifecycle ==
    /\ [](\A id \in TaskIds :
             /\ ~(id \in queued /\ id \in active)
             /\ Completed(id) => (id \notin queued /\ id \notin active))
    /\ [][\A id \in TaskIds :
             /\ (id \in active' /\ id \notin active) => id \in queued
             /\ (Completed(id)' /\ ~Completed(id)) => id \in active
             /\ Completed(id) => result'[id] = result[id]
             /\ (id \in queued' /\ id \notin queued) => (id \notin accepted /\ enqueueRoute)
             /\ invoked'[id] # invoked[id]
                    => (Completed(id) /\ invoked[id] = 0 /\ invoked'[id] = 1)]_vars

\* one task has failed and its callback was invoked while another is computed
C27_Witness ==
    \E id, other \in TaskIds :
        /\ Completed(id)
        /\ result[id].isError
        /\ invoked[id] = 1
        /\ other \in active

(* ------------------------- Graph: handles over time -------------------- *)
\* C28: over any sequence of RouteQueue.cleanup() and Graph.cleanup() calls
\* cleanupRouteQueue is invoked at most once for a queue id.
C28_ReleasedAtMostOnce == \A q \in QueueIds : releases[q] <= 1

\* the documented sequence alone: queue.cleanup() and after it graph.cleanup()
\* never release a queue that was released before
C28_DocumentedSequence ==
    [][(cleanup /\ last.op = "queue.cleanup")
          => \A q \in QueueIds : releases'[q] <= 1]_vars

\* the suspended call i overlaps a call that has performed an engine load
Overlapped(i) == loading[i] < engineLoads

\* C29: two loadGraph calls that overlap lead to at most one engine load and
\* resolve to the same handle: a call that overlaps one that has loaded, or
\* that follows a loadGraph call at once, performs no engine load and ends
\* with the handle of the other.
C29_OverlapLoadsOnce ==
    /\ [][\A i \in 1..Len(loading) :
             (resumeLoad(i) /\ Overlapped(i))
                 => (engineLoads' = engineLoads /\ graphId' = graphId)]_vars
    /\ [][(loadGraph /\ last.op = "loadGraph")
             => (engineLoads' = engineLoads /\ last'.handle = last.handle)]_vars

\* the same on the current revision alone
C29_CurrentLoadsOnce ==
    [][(loadGraph /\ last.op = "loadGraph")
          => (engineLoads' = engineLoads /\ last'.handle = last.handle)]_vars

C29_CurrentWitness ==
    /\ revision = "modules"
    /\ last = Call("loadGraph", "ok", "none", 1)
    /\ engineLoads = 1
    /\ graphId = 1

\* C30: a loadGraph that follows a successful unloadGraph performs a fresh
\* engine load and returns the newly loaded handle, never the released one.
C30_FreshLoadAfterUnload ==
    /\ [](last.op = "loadGraph" /\ last.outcome = "ok" => last.handle \in engineGraphs)
    /\ [][(loadGraph /\ graphId # NoGraph /\ graphId \notin engineGraphs)
             => (engineLoads' = engineLoads + 1 /\ last'.handle # graphId)]_vars

(* ------------------------- profiles of a Graph ------------------------- *)
\* a Graph right after its construction, no Profile constructed on it yet
RegistryInit ==
    /\ graphIdle
    /\ revision = "modules"
    /\ utilIdle
    /\ telemetryIdle
    /\ profiles = <<>>
    /\ registered = <<>>
    /\ engineProfile = NoProfileId

RegistryNext ==
    \/ graphProfile
    \/ loadGraph
    \/ unloadGraph
    \/ profileOp
    \/ createRouteQueue

RegistrySpec == RegistryInit /\ [][RegistryNext]_vars

\* C31: every profile whose id is passed to an engine call was contained in
\* the profile list sent to the engine by loadGraph.
C31_ProfileRegistered ==
    engineProfile # NoProfileId => \E i \in 1..Len(registered) : registered[i] = engineProfile

(* -------------------- simplifyShape: the recursion --------------------- *)
\* comparisons of squared distances, and of a squared distance with an epsilon
Longer(d, e) == d.num * e.den > e.num * d.den
Beyond(d, eps) == eps.num < 0 \/ d.num * Sq(eps.den) > Sq(eps.num) * d.den

\* the lowest-index interior point (indices from 1) whose distance to the
\* first/last chord is maximal
Furthest(points) ==
    LET far(i) == ChordDistance(points[i], points[1], points[Len(points)])
    IN CHOOSE i \in 2..(Len(points) - 1) :
           \A j \in 2..(Len(points) - 1) :
               /\ ~Longer(far(j), far(i))
               /\ j < i => Longer(far(i), far(j))

\* the reference recursion of Ramer-Douglas-Peucker
RECURSIVE Reference(_, _)
Reference(points, eps) ==
    IF Len(points) <= 2 THEN points
    ELSE LET i == Furthest(points)
             start == points[1]
             end == points[Len(points)]
         IN IF Beyond(ChordDistance(points[i], start, end), eps)
                THEN Reference(SubSeq(points, 1, i), eps)
                         \o Tail(Reference(SubSeq(points, i, Len(points)), eps))
                ELSE <<start, end>>

\* C32: for more than 2 points and epsilon > 0 simplifyShape equals the
\* reference recursion (split at the lowest-index interior point of maximal
\* distance to the chord if that distance exceeds epsilon, else [first,
\* last]); three points whose apex deviates by more than epsilon are all
\* returned.
C32_EqualsReference ==
    (simplified.called /\ Len(shape) > 2 /\ epsilon.num > 0)
        => /\ simplified.points = Reference(shape, epsilon)
           /\ (Len(shape) = 3 /\ Beyond(LineDeviation(shape[2], shape[1], shape[3]), epsilon))
                  => simplified.points = shape

\* two interior points equally far from the chord: the split is at the first,
\* and the second stays because it is far from the chord of its half
C32_Witness ==
    /\ simplified.called
    /\ epsilon = [num |-> 1, den |-> 2]
    /\ shape = <<<<0, 0>>, <<1, 1>>, <<2, 1>>, <<2, 0>>>>
    /\ simplified.points = shape

\* the strictly increasing index maps that find the output in the input, ends
\* on ends
Embeddings(out, in) ==
    {f \in [1..Len(out) -> 1..Len(in)] :
        /\ f[1] = 1
        /\ f[Len(out)] = Len(in)
        /\ \A k \in 1..(Len(out) - 1) : f[k] < f[k + 1]
        /\ \A k \in 1..Len(out) : in[f[k]] = out[k]}

\* every input point between two neighbours of the output is within epsilon
\* of the segment between them
WithinEpsilon(out, in, f, eps) ==
    \A k \in 1..(Len(out) - 1) :
        \A i \in (f[k] + 1)..(f[k + 1] - 1) :
            ~Beyond(ChordDistance(in[i], out[k], out[k + 1]), eps)

\* C33: for epsilon > 0 every input point simplifyShape drops lies within
\* epsilon of the output segment between the two retained points that
\* enclose it in input order.
C33_DeviationBounded ==
    (simplified.called /\ Len(shape) > 0 /\ epsilon.num > 0)
        => \E f \in Embeddings(simplified.points, shape) :
               WithinEpsilon(simplified.points, shape, f, epsilon)

\* a point off the output polyline was dropped while an interior point was kept
C33_Witness ==
    /\ simplified.called
    /\ epsilon.num > 0
    /\ Len(simplified.points) > 2
    /\ \E f \in Embeddings(simplified.points, shape) :
           \E k \in 1..(Len(simplified.points) - 1) :
               \E i \in (f[k] + 1)..(f[k + 1] - 1) :
                   ChordDistance(shape[i], simplified.points[k],
                                 simplified.points[k + 1]).num > 0

\* C34: simplifyShape is idempotent: simplifying its result again with the
\* same epsilon gives the same result.
C34_Idempotent ==
    simplified.called => simplifyShape(simplified.points, epsilon) = simplified.points

\* the first pass dropped a point and kept an interior point
C34_Witness ==
    /\ simplified.called
    /\ epsilon.num > 0
    /\ Len(simplified.points) > 2
    /\ Len(simplified.points) < Len(shape)
    /\ simplifyShape(simplified.points, epsilon) = simplified.points

(* --------------------- offsetShape: the output ------------------------- *)
\* the number of junctions among the first n that a pattern leaves unjoined
RECURSIVE Unjoined(_, _)
Unjoined(joined, n) ==
    IF n = 0 THEN 0
    ELSE Unjoined(joined, n - 1) + (IF joined[n] THEN 0 ELSE 1)

\* where the first vertex of junction i is in the output
VertexAt(joined, i) == 1 + i + Unjoined(joined, i - 1)

\* the output laid out for a pattern of joined junctions: the start of the
\* first segment, per junction one vertex if joined and the two segment ends
\* if not, the end of the last segment
LaidOut(out, segments, joined) ==
    LET m == Len(segments)
        at(i) == VertexAt(joined, i)
    IN /\ Len(out) = m + 1 + Unjoined(joined, m - 1)
       /\ out[1] = segments[1][1]
       /\ out[Len(out)] = segments[m][2]
       /\ \A i \in 1..(m - 1) :
              ~joined[i] => (out[at(i)] = segments[i][2] /\ out[at(i) + 1] = segments[i + 1][1])

\* C35: for n >= 2 points the output of offsetShape is the offset start of
\* the first segment, one vertex per joined junction and two per unjoined
\* junction in junction order, and the offset end of the last segment; its
\* length is n plus the number of unjoined junctions, between n and 2n - 2.
\* For fewer than 2 points it is empty.
C35_OutputLayout ==
    offsetted.called =>
        LET n == Len(offsetArgs.points)
        IN IF n < 2 THEN offsetted.points = <<>>
           ELSE /\ \E joined \in [1..(n - 2) -> BOOLEAN] :
                       LaidOut(offsetted.points, offsetted.segments, joined)
                /\ n <= Len(offsetted.points)
                /\ Len(offsetted.points) <= 2 * n - 2

\* a reversal: the junction is not joined and its two vertices are apart
C35_Witness ==
    /\ revision = "modules"
    /\ offsetted.called
    /\ Len(offsetArgs.points) = 3
    /\ Len(offsetted.points) = 4
    /\ offsetted.points[2] # offsetted.points[3]

\* the direction of a segment and the cross product of two directions
Direction(seg) == Displacement(seg[1], seg[2])
Cross(v, w) == Sub(Mul(v[1], w[2]), Mul(v[2], w[1]))
Dot(v, w) == Add(Mul(v[1], w[1]), Mul(v[2], w[2]))

\* the cosine of the angle between v and w, both non-zero, is >= -0.99
CosineAtLeastMinus99(v, w) ==
    \/ Dot(v, w).num >= 0
    \/ AtLeast(Mul(Frac(9801, 10000), Mul(Dot(v, v), Dot(w, w))), Mul(Dot(v, w), Dot(v, w)))

\* the claim's condition for joining junction i: both original segments have
\* a length, the turn is no near-reversal, the offset lines are not parallel
JoinedByRule(points, segments, i) ==
    LET v == Displacement(points[i], points[i + 1])
        w == Displacement(points[i + 1], points[i + 2])
        det == Cross(Direction(segments[i]), Direction(segments[i + 1]))
    IN /\ Dot(v, v).num > 0
       /\ Dot(w, w).num > 0
       /\ CosineAtLeastMinus99(v, w)
       /\ ~BelowTiny(Magnitude(det))

\* x lies on the line through the ends of the segment
OnLine(x, seg) == Cross(Displacement(seg[1], x), Direction(seg)).num = 0

\* C36: the current offsetShape joins a junction by the one intersection
\* point of the two offset lines exactly when both original segments have a
\* length, the cosine of their angle is >= -0.99 and the determinant of the
\* offset lines is at least 1e-10 in magnitude; in every other case both
\* offset endpoints are emitted.
C36_JoinedByRule ==
    (offsetted.called /\ revision = "modules" /\ Len(offsetArgs.points) >= 2) =>
        LET segments == offsetted.segments
            rule == [i \in 1..(Len(segments) - 1) |->
                        JoinedByRule(offsetArgs.points, segments, i)]
        IN /\ LaidOut(offsetted.points, segments, rule)
           /\ \A i \in 1..(Len(segments) - 1) :
                  rule[i] => /\ OnLine(offsetted.points[VertexAt(rule, i)], segments[i])
                             /\ OnLine(offsetted.points[VertexAt(rule, i)], segments[i + 1])

\* a near-reversal between lines that do cross: both offset endpoints are
\* emitted, although the lines have an intersection point
C36_Witness ==
    /\ revision = "modules"
    /\ offsetted.called
    /\ offsetArgs.points = <<<<Whole(0), Whole(12)>>, <<Whole(7), Whole(-12)>>,
                             <<Whole(-3), Whole(12)>>>>
    /\ Len(offsetted.points) = 4
    /\ findIntersection(offsetted.segments[1][1], offsetted.segments[1][2],
                        offsetted.segments[2][1], offsetted.segments[2][2]).found

\* a turn joined by one vertex
C36_JoinedWitness ==
    /\ revision = "modules"
    /\ offsetted.called
    /\ Len(offsetArgs.points) = 3
    /\ Len(offsetted.points) = 3
    /\ offsetted.points[2] # offsetted.segments[1][2]

\* two segments in one line: the offset lines are parallel and both offset
\* endpoints, which coincide, are emitted
C36_StraightWitness ==
    /\ revision = "modules"
    /\ offsetted.called
    /\ offsetArgs.points = <<<<Whole(0), Whole(60)>>, <<Whole(3), Whole(60)>>,
                             <<Whole(6), Whole(60)>>>>
    /\ Len(offsetted.points) = 4
    /\ offsetted.points[2] = offsetted.points[3]

\* the projected length of the segment from a to b: the longitude difference
\* scaled by the cosine of the mean latitude, and the latitude difference
ProjectedLength(a, b) ==
    LET across == Mul(Sub(b[1], a[1]), cosDegrees(Div(Add(a[2], b[2]), Whole(2))))
        along == Sub(b[2], a[2])
    IN sqrt(Add(Mul(across, across), Mul(along, along)))

\* C37: a segment whose projected length is below 1e-10 is emitted unshifted
\* for every offset distance and side: its two offset endpoints are the two
\* original points, and no quotient by the segment length (which would be
\* NaN) reaches them.
C37_TinyUnshifted ==
    offsetted.called =>
        \A i \in 1..(Len(offsetArgs.points) - 1) :
            BelowTiny(ProjectedLength(offsetArgs.points[i], offsetArgs.points[i + 1])) =>
                offsetted.segments[i] = <<offsetArgs.points[i], offsetArgs.points[i + 1]>>

\* a coincident pair left in place next to a segment that was shifted
C37_Witness ==
    /\ offsetted.called
    /\ Len(offsetArgs.points) = 3
    /\ offsetArgs.points[1] = offsetArgs.points[2]
    /\ offsetted.segments[1] = <<offsetArgs.points[1], offsetArgs.points[2]>>
    /\ offsetted.segments[2] # <<offsetArgs.points[2], offsetArgs.points[3]>>

(* ------------------- progress telemetry of a batch --------------------- *)
MaxClock == 32

\* the time that passes between two steps, in seconds
TickSteps == {1, 30}

\* time passes while a completion waits to be handed to the handler
Tick ==
    /\ stream # {}
    /\ \E d \in TickSteps :
        /\ clock + d <= MaxClock
        /\ clock' = clock + d
    /\ UNCHANGED <<revision, queueVars, graphVars, last, utilVars, registryVars,
                   enableProgressBar, progressHistory, completionTimes, bar>>

\* a RouteQueue constructed with enableProgressBar = true
TelemetryInit ==
    /\ queueIdle
    /\ maxConcurrency = MaxConcurrency
    /\ utilIdle
    /\ registryIdle
    /\ enableProgressBar = TRUE
    /\ telemetryOff

\* the batch the telemetry is watched on: one run, of routes that are found,
\* with a callback that returns
QuietBatch ==
    /\ run' <= 1
    /\ thrown' = {}
    /\ \A id \in TaskIds : result'[id] \in {NoResult, FoundRoute}

TelemetryNext ==
    \/ Next /\ QuietBatch
    \/ Tick

TelemetrySpec == TelemetryInit /\ [][TelemetryNext]_vars

\* a completion is counted while the progress display is on
CompletionUpdate == enableProgressBar /\ completedTasks' = completedTasks + 1

\* the completion timestamps of the 30-second window
Window ==
    IF revision = "modules"
        THEN [i \in 1..Len(progressHistory) |-> progressHistory[i].time]
        ELSE completionTimes
WindowSpan == Window[Len(Window)] - Window[1]

\* the throughput of the telemetry algorithm: samples over span once the
\* window holds more than one sample spanning more than one second, otherwise
\* completed over elapsed
WindowThroughput ==
    IF Len(Window) > 1 /\ WindowSpan > 1
        THEN Frac(Len(Window), WindowSpan)
        ELSE Frac(completedTasks, clock)
ThroughputAsSpecified ==
    (Len(Window) > 1 /\ WindowSpan > 1) \/ clock > 0
        => bar.throughput = Throughput(WindowThroughput)

\* C38: after each completion, if the 30-second window holds more than one
\* sample and spans more than one second, throughput is samples / span;
\* otherwise it is completed / elapsed.
C38_Throughput == [][CompletionUpdate => ThroughputAsSpecified']_vars

\* C38 on the revision that polls: its updateProgress computes that throughput
C38_PollingThroughput ==
    [][(CompletionUpdate /\ revision = "legacy") => ThroughputAsSpecified']_vars

\* the window of the polling revision holds several samples over more than a second
C38_PollingWitness ==
    /\ revision = "legacy"
    /\ enableProgressBar
    /\ Len(completionTimes) > 1
    /\ completionTimes[Len(completionTimes)] = clock
    /\ WindowSpan > 1
    /\ bar.value = completedTasks
    /\ bar.throughput = Throughput(Frac(Len(completionTimes), WindowSpan))

\* the tasks of the batch whose completion has not been counted
Remaining ==
    IF revision = "modules"
        THEN totalTasks - completedTasks
        ELSE Cardinality(queued) + Cardinality(active)
                 + Cardinality({e \in stream : e.run = run})

\* the display is written: a completion is counted or a poll changes it
BarUpdate == CompletionUpdate \/ (enableProgressBar /\ bar' # bar)

EtaAsSpecified ==
    /\ bar.eta.shown =>
           /\ bar.throughput.known
           /\ bar.throughput.value.num > 0
           /\ bar.eta.seconds = round(Div(Whole(Remaining), bar.throughput.value))
    /\ (bar.throughput.known /\ bar.throughput.value.num = 0) => ~bar.eta.shown
    /\ Remaining = 0 => ~bar.eta.shown

\* C39: a shown ETA is round(remaining / throughput) seconds, remaining being
\* the tasks not yet completed; no ETA is shown when throughput is zero or
\* when remaining is zero, the update for the last completion included.
C39_Eta == [][BarUpdate => EtaAsSpecified']_vars

\* C39 on the revision that polls, with remaining read as the queued and
\* active tasks of the status
EtaOfStatus ==
    /\ bar.eta.shown =>
           /\ bar.throughput.value.num > 0
           /\ bar.eta.seconds =
                  round(Div(Whole(getStatus.queuedTasks + getStatus.activeTasks),
                            bar.throughput.value))
    /\ bar.throughput.value.num = 0 => ~bar.eta.shown
    /\ getStatus.queuedTasks + getStatus.activeTasks = 0 => ~bar.eta.shown
C39_PollingEta == [][(BarUpdate /\ revision = "legacy") => EtaOfStatus']_vars

\* an ETA shown by the polling revision
C39_PollingWitness ==
    /\ revision = "legacy"
    /\ bar.eta.shown
    /\ bar.eta.seconds > 0

====
